---- MODULE Spec2Model ----
(***************************************************************************)
(* Model of the clixon backend <get>/<get-config> query pipeline           *)
(* (apps/backend/backend_get.c): request parsing, datastore read, state    *)
(* aggregation, with-defaults, XPath selection, pruning, NACM gate, reply  *)
(* serialisation and the list-pagination branch.                           *)
(***************************************************************************)
EXTENDS Integers, Sequences, FiniteSets, TLC

\* Number of entries a stored list can have.
MaxList == 4

NULL == "NULL"

\* The largest int32_t (depth)
Int32Max == 2147483647

\* uint32_t (offset, limit) as two 16-bit halves: the value is hi * 2^16 + lo
HalfMod == 65536

U32(n) == [hi |-> 0, lo |-> n]

U32Max == [hi |-> HalfMod - 1, lo |-> HalfMod - 1]

\* A variant that saturates at UINT32_MAX
U32Add_saturating(a, b) ==
    IF a.hi + b.hi + ((a.lo + b.lo) \div HalfMod) >= HalfMod THEN U32Max
    ELSE [hi |-> a.hi + b.hi + ((a.lo + b.lo) \div HalfMod),
          lo |-> (a.lo + b.lo) % HalfMod]

\* a + b in uint32_t arithmetic (modulo 2^32)
U32Add(a, b) ==
    [hi |-> (a.hi + b.hi + ((a.lo + b.lo) \div HalfMod)) % HalfMod,
     lo |-> (a.lo + b.lo) % HalfMod]

U32Lt(a, b) == a.hi < b.hi \/ (a.hi = b.hi /\ a.lo < b.lo)

U32Le(a, b) == a = b \/ U32Lt(a, b)

(***************************************************************************)
(* The loaded YANG schema (read-only after load).  A fixed universe of     *)
(* data nodes: 0 is the datastore top, 1..4 the container chain a/b/c/d,   *)
(* 5 and 6 the config leaves x and y (default 5) below a, 7 the state      *)
(* container s with the state leaf t (default 5), 9 the state leaf st      *)
(* below the config container a, 10.. the entries of the config list l,    *)
(* 30.. the entries of the state list sl.                                  *)
(***************************************************************************)
Root == 0

CfgEntry(i) == 10 + i

StEntry(i) == 30 + i

CfgEntries == {CfgEntry(i) : i \in 0..(MaxList - 1)}

StEntries == {StEntry(i) : i \in 0..(MaxList - 1)}

Fixed == 1..9

Nodes == {Root} \cup Fixed \cup CfgEntries \cup StEntries

Parent(n) ==
    CASE n = 1 -> Root
      [] n = 2 -> 1
      [] n = 3 -> 2
      [] n = 4 -> 3
      [] n = 5 -> 1
      [] n = 6 -> 1
      [] n = 7 -> Root
      [] n = 8 -> 7
      [] n = 9 -> 1
      [] OTHER -> Root

Name(n) ==
    CASE n = Root -> "config"
      [] n = 1 -> "a"
      [] n = 2 -> "b"
      [] n = 3 -> "c"
      [] n = 4 -> "d"
      [] n = 5 -> "x"
      [] n = 6 -> "y"
      [] n = 7 -> "s"
      [] n = 8 -> "t"
      [] n = 9 -> "st"
      [] n \in CfgEntries -> "l"
      [] OTHER -> "sl"

\* yang_keyword_get
Keyword(n) ==
    CASE n \in {4, 5, 6, 8, 9} -> "leaf"
      [] n \in CfgEntries \cup StEntries -> "list"
      [] OTHER -> "container"

\* yang_config_ancestor: config false on the node or one of its ancestors
YangConfig(n) == n \notin ({7, 8, 9} \cup StEntries)

\* The default value of the schema node (yang_cv_get), NULL if it has none
YangDefault(n) == IF n \in {5, 6, 8} THEN "5" ELSE NULL

Bodies == {"5", "7"}

RECURSIVE AncOrSelf(_)
AncOrSelf(n) == IF n = Root THEN {Root} ELSE {n} \cup AncOrSelf(Parent(n))

\* Number of levels between the top and n (the top is level 0)
Level(n) == Cardinality(AncOrSelf(n)) - 1

(***************************************************************************)
(* XML trees (cxobj).  A tree is the set of universe nodes present, the    *)
(* text body of each, the MARK and DEFAULT flag sets, the number of        *)
(* wd:default attributes of each element and whether the top declares the  *)
(* prefix wd.  isnull stands for a NULL cxobj pointer.                     *)
(***************************************************************************)
NoBody == [n \in Nodes |-> NULL]

NoTag == [n \in Nodes |-> 0]

NullTree ==
    [isnull |-> TRUE, nodes |-> {}, body |-> NoBody, mark |-> {}, dflt |-> {},
     tag |-> NoTag, wdns |-> FALSE]

\* xml_new(DATASTORE_TOP_SYMBOL, NULL, CX_ELMNT)
TopTree ==
    [isnull |-> FALSE, nodes |-> {Root}, body |-> NoBody, mark |-> {},
     dflt |-> {}, tag |-> NoTag, wdns |-> FALSE]

MkTree(ns, b) ==
    [isnull |-> FALSE, nodes |-> ns \cup {Root},
     body |-> [n \in Nodes |-> IF n \in ns THEN b[n] ELSE NULL],
     mark |-> {}, dflt |-> {}, tag |-> NoTag, wdns |-> FALSE]

\* Keep only the nodes of keep (xml_purge of all the others)
Restrict(t, keep) ==
    [t EXCEPT !.nodes = t.nodes \cap (keep \cup {Root}),
              !.body = [n \in Nodes |-> IF n \in keep THEN t.body[n] ELSE NULL],
              !.mark = t.mark \cap (keep \cup {Root}),
              !.dflt = t.dflt \cap (keep \cup {Root}),
              !.tag = [n \in Nodes |-> IF n \in keep THEN t.tag[n] ELSE 0]]

\* Element children of n in document order
ChildSeq(t, n) ==
    LET cs == {m \in t.nodes : m # Root /\ Parent(m) = n}
        RECURSIVE Ord(_)
        Ord(s) == IF s = {} THEN << >>
                  ELSE LET m == CHOOSE k \in s : \A j \in s : k <= j
                       IN <<m>> \o Ord(s \ {m})
    IN Ord(cs)

Range(q) == {q[i] : i \in 1..Len(q)}

\* The nodes of t below or equal to one of the nodes of ms
SubtreeOf(t, ms) == {n \in t.nodes : AncOrSelf(n) \cap ms # {}}

\* The ancestors (and self) of the nodes of ms
AncestorsOf(ms) == UNION {AncOrSelf(m) : m \in ms}


(***************************************************************************)
(* XPath.  The requests use absolute location paths of child steps with a  *)
(* name test: steps is the sequence of names ("/" has no step).  The       *)
(* pagination planner appends one positional predicate to the last step:   *)
(* haslo/lo is "lo <= position()", hashi/hi is "position() < hi".          *)
(***************************************************************************)
NullXPath == [isnull |-> TRUE, steps |-> << >>, haslo |-> FALSE, lo |-> U32(0),
              hashi |-> FALSE, hi |-> U32(0)]

MkXPath(st) == [isnull |-> FALSE, steps |-> st, haslo |-> FALSE, lo |-> U32(0),
                hashi |-> FALSE, hi |-> U32(0)]

\* xp_eval_step, A_CHILD without the descendant flag: for each context node
\* in order, its element children that pass the node test
RECURSIVE xp_eval_step(_, _, _)
xp_eval_step(t, ctx, name) ==
    IF ctx = << >> THEN << >>
    ELSE SelectSeq(ChildSeq(t, Head(ctx)), LAMBDA m : Name(m) = name)
           \o xp_eval_step(t, Tail(ctx), name)

RECURSIVE xp_eval_steps(_, _, _)
xp_eval_steps(t, ctx, steps) ==
    IF steps = << >> THEN ctx
    ELSE xp_eval_steps(t, xp_eval_step(t, ctx, Head(steps)), Tail(steps))

\* xp_eval of XP_ABSPATH: the context is moved to the top node; a path
\* with no step ("/") gives the element children of the top node
xp_eval(t, steps) ==
    IF steps = << >> THEN ChildSeq(t, Root)
    ELSE xp_eval_steps(t, <<Root>>, steps)

\* The positional predicate written by the pagination planner, on the
\* 0-based position of a node in the node-set of the last step
PredHolds(xp, pos) ==
    /\ (xp.haslo => U32Le(xp.lo, U32(pos)))
    /\ (xp.hashi => U32Lt(U32(pos), xp.hi))

\* xpath_vec(xret, nsc, xpath?xpath:"/"): the node-set of the path
xpath_vec(t, xp) ==
    LET ns == xp_eval(t, IF xp.isnull THEN << >> ELSE xp.steps)
        RECURSIVE Keep(_)
        Keep(i) == IF i > Len(ns) THEN << >>
                   ELSE (IF PredHolds(xp, i - 1) THEN <<ns[i]>> ELSE << >>)
                          \o Keep(i + 1)
    IN Keep(1)

(***************************************************************************)
(* Tree filter primitives of the XML library.                              *)
(***************************************************************************)
\* xml_flag_set(x, XML_FLAG_MARK) for every x of ms
xml_flag_set_mark(t, ms) == [t EXCEPT !.mark = @ \cup (ms \cap t.nodes)]

\* xml_apply(xt, CX_ELMNT, xml_flag_reset, XML_FLAG_MARK)
xml_flag_reset_mark(t) == [t EXCEPT !.mark = {}]

\* xml_tree_prune_flagged_sub(xt, XML_FLAG_MARK, 1, NULL): a marked element
\* is kept with its subtree, an unmarked one only if something below it is
\* marked
xml_tree_prune_flagged_sub(t) ==
    LET ms == t.mark \ {Root}
    IN Restrict(t, SubtreeOf(t, ms) \cup AncestorsOf(ms))

FlagsOf(t, n) ==
    (IF n \in t.mark THEN {"MARK"} ELSE {})
      \cup (IF n \in t.dflt THEN {"DEFAULT"} ELSE {})

\* xml_tree_prune_flags(xt, flags, mask): purge every element whose flags
\* under mask are exactly flags, with its subtree
xml_tree_prune_flags(t, flags, mask) ==
    LET gone == {n \in t.nodes \ {Root} : FlagsOf(t, n) \cap mask = flags}
    IN Restrict(t, {n \in t.nodes : AncOrSelf(n) \cap gone = {}})

\* xml_non_config_data(xt, NULL): mark the elements that are state data
xml_non_config_data(t) ==
    [t EXCEPT !.mark = @ \cup {n \in t.nodes \ {Root} : ~YangConfig(n)}]

\* xmlns_set(x, "wd", "urn:ietf:params:xml:ns:netconf:default:1.0")
xmlns_set_wd(t) == [t EXCEPT !.wdns = TRUE]

\* xml_default_recurse(xt, state): add the leaves that are absent and have a
\* schema default below the elements present, flagged DEFAULT
xml_default_recurse(t, state) ==
    LET add == {n \in Fixed : /\ n \notin t.nodes
                              /\ Parent(n) \in t.nodes
                              /\ YangDefault(n) # NULL
                              /\ (YangConfig(n) \/ state)}
    IN [t EXCEPT !.nodes = @ \cup add,
                 !.body = [n \in Nodes |-> IF n \in add THEN YangDefault(n)
                                           ELSE @[n]],
                 !.dflt = @ \cup add]

(***************************************************************************)
(* with-defaults (RFC 6243)                                                *)
(***************************************************************************)
\* A variant that only resets the flag
xml_flag_default_value_reset(t, n) == [t EXCEPT !.mark = @ \ {n}]

\* xml_flag_default_value(x, XML_FLAG_MARK)
xml_flag_default_value(t, n) ==
    IF t.body[n] # NULL /\ YangDefault(n) # NULL /\ t.body[n] = YangDefault(n)
    THEN [t EXCEPT !.mark = @ \cup {n}]
    ELSE [t EXCEPT !.mark = @ \ {n}]

\* xml_apply(xret, CX_ELMNT, xml_flag_default_value, XML_FLAG_MARK)
RECURSIVE apply_flag_default_value(_, _)
apply_flag_default_value(t, todo) ==
    IF todo = {} THEN t
    ELSE LET n == CHOOSE k \in todo : TRUE
         IN apply_flag_default_value(xml_flag_default_value(t, n), todo \ {n})

\* A variant that adds the attribute whatever the flags
xml_add_default_tag_always(t, n, flags) == [t EXCEPT !.tag[n] = @ + 1]

\* xml_add_default_tag(x, flags)
xml_add_default_tag(t, n, flags) ==
    IF FlagsOf(t, n) \cap flags # {}
    THEN [t EXCEPT !.tag[n] = @ + 1]
    ELSE t

\* xml_apply(xret, CX_ELMNT, xml_add_default_tag, DEFAULT|MARK)
RECURSIVE apply_add_default_tag(_, _, _)
apply_add_default_tag(t, todo, flags) ==
    IF todo = {} THEN t
    ELSE LET n == CHOOSE k \in todo : TRUE
         IN apply_add_default_tag(xml_add_default_tag(t, n, flags),
                                  todo \ {n}, flags)

\* A variant that fails on a mode it does not recognise
with_defaults_strict(wd, t) ==
    IF wd = "absent" THEN [retval |-> 0, tree |-> t]
    ELSE IF wd = NULL THEN [retval |-> -1, tree |-> t]
    ELSE IF wd = "explicit"
    THEN [retval |-> 0,
          tree |-> xml_tree_prune_flags(
                       xml_non_config_data(xml_flag_reset_mark(t)),
                       {"DEFAULT"}, {"MARK", "DEFAULT"})]
    ELSE IF wd = "trim"
    THEN [retval |-> 0,
          tree |-> LET t1 == xml_tree_prune_flags(t, {"DEFAULT"}, {"DEFAULT"})
                       t2 == apply_flag_default_value(t1, t1.nodes \ {Root})
                   IN xml_tree_prune_flags(t2, {"MARK"}, {"MARK"})]
    ELSE IF wd = "report-all-tagged"
    THEN [retval |-> 0,
          tree |-> LET t1 == xmlns_set_wd(t)
                       t2 == apply_flag_default_value(t1, t1.nodes \ {Root})
                   IN apply_add_default_tag(t2, t2.nodes \ {Root},
                                            {"DEFAULT", "MARK"})]
    ELSE IF wd = "report-all" THEN [retval |-> 0, tree |-> t]
    ELSE [retval |-> -1, tree |-> t]

\* with_defaults(xe, xret).  wd is the with-defaults element of the
\* request: "absent", or its body (NULL if the element is empty).
with_defaults(wd, t) ==
    IF wd = "absent" THEN [retval |-> 0, tree |-> t]
    ELSE IF wd = NULL THEN [retval |-> -1, tree |-> t]
    ELSE IF wd = "explicit"
    THEN [retval |-> 0,
          tree |-> xml_tree_prune_flags(
                       xml_non_config_data(xml_flag_reset_mark(t)),
                       {"DEFAULT"}, {"MARK", "DEFAULT"})]
    ELSE IF wd = "trim"
    THEN [retval |-> 0,
          tree |-> LET t1 == xml_tree_prune_flags(t, {"DEFAULT"}, {"DEFAULT"})
                       t2 == apply_flag_default_value(t1, t1.nodes \ {Root})
                   IN xml_tree_prune_flags(t2, {"MARK"}, {"MARK"})]
    ELSE IF wd = "report-all-tagged"
    THEN [retval |-> 0,
          tree |-> LET t1 == xmlns_set_wd(t)
                       t2 == apply_flag_default_value(t1, t1.nodes \ {Root})
                   IN apply_add_default_tag(t2, t2.nodes \ {Root},
                                            {"DEFAULT", "MARK"})]
    ELSE [retval |-> 0, tree |-> t]

(***************************************************************************)
(* Selection and reply                                                     *)
(***************************************************************************)
\* A variant without the final reset of the marks
filter_xpath_again_noreset(t, xvec) ==
    IF t.isnull THEN [retval |-> -1, tree |-> t]
    ELSE LET t1 == xml_flag_set_mark(t, Range(xvec))
         IN [retval |-> 0,
             tree |-> IF Root \notin t1.mark
                      THEN xml_tree_prune_flagged_sub(t1)
                      ELSE t1]

\* filter_xpath_again(h, yspec, xret, xvec, xlen, xpath, nsc)
filter_xpath_again(t, xvec) ==
    IF t.isnull THEN [retval |-> -1, tree |-> t]
    ELSE LET t1 == xml_flag_set_mark(t, Range(xvec))
             t2 == IF Root \notin t1.mark
                   THEN xml_tree_prune_flagged_sub(t1)
                   ELSE t1
         IN [retval |-> 0, tree |-> xml_flag_reset_mark(t2)]

\* clixon_xml2cbuf(cb, x, 0, 0, depth, 0): the elements written; depth is
\* the number of levels to print, -1 (negative) is all, 0 is none
clixon_xml2cbuf(t, depth) ==
    IF depth < 0 THEN t.nodes
    ELSE {n \in t.nodes : Level(n) < depth}

\* int32_t addition depth+1 (two's complement wrap)
Int32Add1(d) == IF d = Int32Max THEN -Int32Max - 1 ELSE d + 1

\* A variant that passes the depth as it is
ReplyDepth_noinc(depth) == depth

\* The level bound get_nacm_and_reply passes to clixon_xml2cbuf
ReplyDepth(depth) == IF depth > 0 THEN Int32Add1(depth) ELSE depth


(***************************************************************************)
(* The environment of the handler: request attributes, the datastore, the  *)
(* plugins and the NACM policy.                                            *)
(***************************************************************************)
\* The select expressions a <filter> can carry
Selects == { << >>, <<"a">>, <<"a", "b">>, <<"a", "x">>, <<"s">>, <<"l">>,
             <<"sl">>, <<"zz">> }

\* The values of the depth attribute
DepthAttrs == {NULL, "-1", "0", "1", "2", "2147483647", "two"}

\* parse_int32(attr, &depth, &reason): ok is the return value 1
parse_int32(str) ==
    CASE str = "-1" -> [ok |-> TRUE, val |-> -1]
      [] str = "0" -> [ok |-> TRUE, val |-> 0]
      [] str = "1" -> [ok |-> TRUE, val |-> 1]
      [] str = "2" -> [ok |-> TRUE, val |-> 2]
      [] str = "2147483647" -> [ok |-> TRUE, val |-> Int32Max]
      [] OTHER -> [ok |-> FALSE, val |-> 0]

\* The bodies of the with-defaults element ("absent": no such element,
\* NULL: an element with no body)
WdModes == {"absent", NULL, "report-all", "explicit", "trim",
            "report-all-tagged", "bogus"}

\* The bodies of <offset> and <limit> ("absent": no such element, NULL: an
\* element with no body)
NumBodies == {"absent", NULL, "none", "unbounded", "0", "1", "2", "3",
              "4294967295", "4294967296", "-1"}

\* parse_uint32(valstr, value, &reason): ok is the return value 1
parse_uint32(str) ==
    CASE str = "0" -> [ok |-> TRUE, val |-> U32(0)]
      [] str = "1" -> [ok |-> TRUE, val |-> U32(1)]
      [] str = "2" -> [ok |-> TRUE, val |-> U32(2)]
      [] str = "3" -> [ok |-> TRUE, val |-> U32(3)]
      [] str = "4294967295" -> [ok |-> TRUE, val |-> U32Max]
      [] OTHER -> [ok |-> FALSE, val |-> U32(0)]

\* netconf_content_str2int
netconf_content_str2int(attr) ==
    CASE attr = "config" -> "config"
      [] attr = "nonconfig" -> "nonconfig"
      [] attr = "all" -> "all"
      [] OTHER -> "unknown"

\* The configuration stored in a datastore: the container chain down to
\* level k, the leaves x and y below a, or the first n entries of list l
ChainTo(k) == {n \in 1..4 : n <= k}

StoredTrees ==
    {MkTree(ChainTo(k) \cup xs \cup ys, [NoBody EXCEPT ![5] = v, ![6] = "7"]) :
        k \in 1..4, xs \in {{}, {5}}, ys \in {{}, {6}}, v \in Bodies}
    \cup {MkTree({CfgEntry(i) : i \in 0..(n - 1)}, NoBody) : n \in 0..MaxList}

\* The state data the plugins supply
StateTrees ==
    {MkTree({}, NoBody), MkTree({7}, NoBody)}
    \cup {MkTree({7, 8}, [NoBody EXCEPT ![8] = v]) : v \in Bodies}
    \cup {MkTree({1, 9}, [NoBody EXCEPT ![9] = "7"])}

\* The sessions of the backend (ce_id of a client entry)
Sessions == {1, 2}

\* The session of the request (ce->ce_id); the sessions are interchangeable
ThisSession == 1

\* xmldb_islocked: the datastore is not locked
NoLock == 0

\* The pages a pagination state callback supplies
StatePages == {MkTree({StEntry(i) : i \in 0..(n - 1)}, NoBody) : n \in 0..MaxList}

\* netconf_trymerge: add the elements of t2 to t1
xml_merge(t1, t2) ==
    [t1 EXCEPT !.nodes = @ \cup t2.nodes,
               !.body = [n \in Nodes |-> IF n \in t2.nodes THEN t2.body[n]
                                         ELSE @[n]]]

\* xmldb_get0(h, db, YB_MODULE, nsc, xpath, 1, &xret, NULL, NULL): a copy of
\* the part of the stored tree the path selects, with the config defaults
xmldb_get0(stored, xp) ==
    LET sel == Range(xpath_vec(stored, xp))
    IN xml_default_recurse(
           Restrict(stored, SubtreeOf(stored, sel) \cup AncestorsOf(sel)), FALSE)

\* The sets of elements a NACM policy can deny the user
NacmDenied == {{}, {2}}

\* nacm_datanode_read: purge the denied elements
nacm_datanode_read(t, denied) ==
    Restrict(t, {n \in t.nodes : AncOrSelf(n) \cap denied = {}})


(***************************************************************************)
(* The XPath evaluator (lib/src/clixon_xpath_eval.c)                       *)
(***************************************************************************)
\* The strings of the model in strcmp order
StrOrder == <<"", "5", "7", "a", "b">>

XpStrings == {StrOrder[i] : i \in 1..Len(StrOrder)}

StrRank(s) == CHOOSE i \in 1..Len(StrOrder) : StrOrder[i] = s

\* strcmp(s1, s2): negative, zero or positive
strcmp(s1, s2) == StrRank(s1) - StrRank(s2)

\* A double is held as its number of halves: 2 is the double 1, 3 the
\* double 1.5
Scale == 2

\* The double of an integer
Dbl(n) == n * Scale

\* A variant that counts from 1
CInt_from_one(d) == (IF d >= 0 THEN d \div Scale ELSE -((-d) \div Scale)) - 1

\* (int)d: the double d truncated towards zero
CInt(d) == IF d >= 0 THEN d \div Scale ELSE -((-d) \div Scale)

\* The double NAN
NaN == -Int32Max

\* sscanf(str, "%lf", &n) of a body, NAN if it is no number
sscanf_lf(str) ==
    IF str = "5" THEN Dbl(5) ELSE IF str = "7" THEN Dbl(7) ELSE NaN

\* C truth value of a condition
CBool(b) == IF b THEN 1 ELSE 0

\* xml_body(x) of an element of the document
xml_body(doc, n) == doc.body[n]

\* An xp_ctx after memset 0: id names the allocation
MkCtx(id, node, initial) ==
    [id |-> id, type |-> "NODESET", node |-> node, initial |-> initial,
     nodeset |-> << >>, descendant |-> 0, bool |-> 0, number |-> 0,
     string |-> NULL]

\* No context (a NULL xp_ctx pointer)
NoCtx == [MkCtx(0, Root, Root) EXCEPT !.type = "NONE"]

\* The contexts allocated and freed during an evaluation: next is the next
\* allocation, live the allocations not freed, twice is set when a context
\* that is not live is freed
NoMem == [next |-> 1, live |-> {}, twice |-> FALSE]

\* malloc of an xp_ctx
ctx_alloc(m) == [m EXCEPT !.next = @ + 1, !.live = @ \cup {m.next}]

\* ctx_free(xc)
ctx_free(m, xc) ==
    IF xc.id \in m.live THEN [m EXCEPT !.live = @ \ {xc.id}]
    ELSE [m EXCEPT !.twice = TRUE]

\* ctx_free(xc) of a pointer that may be NULL
ctx_free_opt(m, xc) == IF xc.type = "NONE" THEN m ELSE ctx_free(m, xc)

\* ctx_dup(xc): an independent copy, allocated at m.next
ctx_dup(m, xc) == [xc EXCEPT !.id = m.next]

\* ctx2boolean(xc)
ctx2boolean(xc) ==
    IF xc.type = "NODESET" THEN CBool(Len(xc.nodeset) > 0)
    ELSE IF xc.type = "BOOL" THEN xc.bool
    ELSE IF xc.type = "NUMBER" THEN CBool(xc.number # 0 /\ xc.number # NaN)
    ELSE CBool(xc.string # NULL /\ xc.string # "")

\* ctx2number(xc, &n)
ctx2number(doc, xc) ==
    IF xc.type = "NODESET"
    THEN IF Len(xc.nodeset) > 0 /\ xml_body(doc, xc.nodeset[1]) # NULL
         THEN sscanf_lf(xml_body(doc, xc.nodeset[1]))
         ELSE NaN
    ELSE IF xc.type = "BOOL" THEN Dbl(xc.bool)
    ELSE IF xc.type = "NUMBER" THEN xc.number
    ELSE IF xc.string = NULL THEN NaN ELSE sscanf_lf(xc.string)

\* The prefixes and namespace URIs of the model
Prefixes == {NULL, "p", "q"}

URIs == {"urn:a", "urn:b"}

\* No namespace context (nsc == NULL)
NoNsc == [isnull |-> TRUE, map |-> [p \in Prefixes |-> NULL]]

\* A namespace context that binds prefixes to URIs
MkNsc(map) == [isnull |-> FALSE, map |-> map]

\* xml_nsctx_get(nsc, prefix): the URI bound to prefix, or NULL
xml_nsctx_get(nsc, prefix) == nsc.map[prefix]

\* An element as the node test sees it: its name, its prefix and the
\* namespace declarations in scope at it
MkElem(name, prefix, ns) == [name |-> name, prefix |-> prefix, ns |-> ns]

\* xml2ns(x, prefix, &namespace): the URI the document binds prefix to
xml2ns(x, prefix) == x.ns[prefix]

\* An element of the document trees of the model: no prefix, no namespace
ElemOf(n) == MkElem(Name(n), NULL, [p \in Prefixes |-> NULL])

\* No syntax tree (a NULL xpath_tree pointer)
NoXs == [type |-> "NONE"]

\* An xpath_tree node: type, discriminant xs_int, xs_s0, xs_s1, xs_double
\* and the two children
MkXs(type, int, s0, s1, double, c0, c1) ==
    [type |-> type, int |-> int, s0 |-> s0, s1 |-> s1, double |-> double,
     c0 |-> c0, c1 |-> c1]

\* A variant that compares the prefixes even with a namespace context
nodetest_eval_node_prefix(x, xs, nsc) ==
    IF xs.s1 = "*" THEN 1
    ELSE IF x.name # xs.s1 THEN 0
    ELSE IF x.prefix = NULL /\ xs.s0 = NULL THEN 1
    ELSE IF x.prefix = NULL \/ xs.s0 = NULL THEN 0
    ELSE CBool(x.prefix = xs.s0)

\* nodetest_eval_node(x, xs, nsc): 1 match, 0 no match
nodetest_eval_node(x, xs, nsc) ==
    IF xs.s1 = "*" THEN 1
    ELSE LET nsxml == xml2ns(x, x.prefix)
             prefix2 == xs.s0
         IN IF x.name # xs.s1 THEN 0
            ELSE IF ~nsc.isnull
            THEN LET nsxpath == xml_nsctx_get(nsc, prefix2)
                 IN IF nsxml # NULL /\ nsxpath # NULL
                    THEN CBool(nsxml = nsxpath)
                    ELSE CBool(nsxml = NULL /\ nsxpath = NULL)
            ELSE IF x.prefix = NULL /\ prefix2 = NULL THEN 1
            ELSE IF x.prefix = NULL \/ prefix2 = NULL THEN 0
            ELSE CBool(x.prefix = prefix2)

\* nodetest_eval(x, xs, nsc)
nodetest_eval(x, xs, nsc) ==
    IF xs.type = "NODE" THEN nodetest_eval_node(x, xs, nsc)
    ELSE IF xs.type = "NODE_FN"
    THEN IF xs.s0 = "node" THEN 1
         ELSE IF xs.s0 = "text" THEN 1
         ELSE 0
    ELSE 0

\* nodetest_recursive(xn, nodetest, CX_ELMNT, 0x0, nsc, &vec, &veclen): the
\* elements below xn that match, each before the matches below it
RECURSIVE nodetest_recursive(_, _, _, _)
nodetest_recursive(doc, xn, nodetest, nsc) ==
    LET ch == ChildSeq(doc, xn)
        RECURSIVE Each(_)
        Each(i) ==
            IF i > Len(ch) THEN << >>
            ELSE (IF nodetest_eval(ElemOf(ch[i]), nodetest, nsc) = 1
                  THEN <<ch[i]>> ELSE << >>)
                 \o nodetest_recursive(doc, ch[i], nodetest, nsc)
                 \o Each(i + 1)
    IN Each(1)

\* The operators (xs_int of XP_AND, XP_RELEX, XP_ADD and XP_UNION)
RelOps == {"XO_EQ", "XO_NE", "XO_GE", "XO_LE", "XO_LT", "XO_GT"}

\* The result of an operation: retval 0 with the context handed over in xr,
\* or retval -1 (error) with no context; m is the allocation record after it
OpResult(retval, xr, m) == [retval |-> retval, xr |-> xr, m |-> m]

\* The comparison of strcmp(s1, s2) with 0 that op stands for
StrOp(op, s1, s2) ==
    CASE op = "XO_EQ" -> strcmp(s1, s2) = 0
      [] op = "XO_NE" -> strcmp(s1, s2) # 0
      [] op = "XO_GE" -> strcmp(s1, s2) >= 0
      [] op = "XO_LE" -> strcmp(s1, s2) <= 0
      [] op = "XO_LT" -> strcmp(s1, s2) < 0
      [] op = "XO_GT" -> strcmp(s1, s2) > 0

\* The comparison of two doubles that op stands for (with a NAN only !=
\* is true)
NumOp(op, n1, n2) ==
    IF n1 = NaN \/ n2 = NaN THEN op = "XO_NE"
    ELSE CASE op = "XO_EQ" -> n1 = n2
           [] op = "XO_NE" -> n1 # n2
           [] op = "XO_GE" -> n1 >= n2
           [] op = "XO_LE" -> n1 <= n2
           [] op = "XO_LT" -> n1 < n2
           [] op = "XO_GT" -> n1 > n2

\* xp_relop, both operands node-sets: the loops over xc1 and xc2.  The
\* result is -1 for an operator that is not relational, else xc_bool.
RECURSIVE relop_nodesets(_, _, _, _, _, _)
relop_nodesets(doc, ns1, ns2, op, i, j) ==
    IF i > Len(ns1) THEN 0
    ELSE IF xml_body(doc, ns1[i]) = NULL THEN 0
    ELSE IF j > Len(ns2) THEN relop_nodesets(doc, ns1, ns2, op, i + 1, 1)
    ELSE IF xml_body(doc, ns2[j]) = NULL THEN 0
    ELSE IF op \notin RelOps THEN -1
    ELSE IF StrOp(op, xml_body(doc, ns1[i]), xml_body(doc, ns2[j])) THEN 1
    ELSE relop_nodesets(doc, ns1, ns2, op, i, j + 1)

\* xp_relop, a node-set and a string: the loop over the node-set.  -1 for
\* an operator other than = and !=.
RECURSIVE relop_nodeset_string(_, _, _, _, _)
relop_nodeset_string(doc, ns1, s2, op, i) ==
    IF i > Len(ns1) THEN 0
    ELSE LET s1 == xml_body(doc, ns1[i])
             b == IF op = "XO_EQ"
                  THEN IF s1 = NULL \/ s2 = NULL
                       THEN s1 = NULL /\ s2 = NULL
                       ELSE strcmp(s1, s2) = 0
                  ELSE IF s1 = NULL \/ s2 = NULL
                       THEN ~(s1 = NULL /\ s2 = NULL)
                       ELSE strcmp(s1, s2) # 0
         IN IF op \notin {"XO_EQ", "XO_NE"} THEN -1
            ELSE IF b THEN 1
            ELSE relop_nodeset_string(doc, ns1, s2, op, i + 1)

\* xp_relop, a node-set and a number: the loop over the node-set.  -1 for
\* an operator that is not relational, -2 where sscanf reads the body of
\* an element that has none (a NULL pointer).
RECURSIVE relop_nodeset_number(_, _, _, _, _, _)
relop_nodeset_number(doc, ns1, n2, op, reverse, i) ==
    IF i > Len(ns1) THEN 0
    ELSE IF xml_body(doc, ns1[i]) = NULL THEN -2
    ELSE LET n1 == sscanf_lf(xml_body(doc, ns1[i]))
             b == IF op \in {"XO_EQ", "XO_NE"} THEN NumOp(op, n1, n2)
                  ELSE IF reverse THEN NumOp(op, n2, n1)
                  ELSE NumOp(op, n1, n2)
         IN IF op \notin RelOps THEN -1
            ELSE IF b THEN 1
            ELSE relop_nodeset_number(doc, ns1, n2, op, reverse, i + 1)

\* A variant that takes operands of different types for unequal
xp_relop_mixed_false(doc, m, xc1, xc2, op) ==
    LET m1 == ctx_alloc(m)
        xr == [MkCtx(m.next, Root, xc1.initial) EXCEPT !.type = "BOOL"]
        Ok(b) == OpResult(0, [xr EXCEPT !.bool = IF b # 0 THEN 1 ELSE 0], m1)
        Err(r) == OpResult(r, NoCtx, m1)
        Of(b) == IF b < 0 THEN Err(b) ELSE Ok(b)
    IN IF xc1.type = xc2.type
       THEN CASE xc1.type = "NODESET" ->
                   Of(relop_nodesets(doc, xc1.nodeset, xc2.nodeset, op, 1, 1))
              [] xc1.type = "BOOL" -> Ok(CBool(xc1.bool = xc2.bool))
              [] xc1.type = "NUMBER" ->
                   Ok(CBool(NumOp("XO_EQ", xc1.number, xc2.number)))
              [] xc1.type = "STRING" ->
                   Ok(CBool(strcmp(xc1.string, xc2.string) = 0))
       ELSE IF xc1.type # "NODESET" /\ xc2.type # "NODESET"
       THEN Ok(0)
       ELSE LET reverse == xc2.type = "NODESET"
                x1 == IF reverse THEN xc2 ELSE xc1
                x2 == IF reverse THEN xc1 ELSE xc2
            IN CASE x2.type = "BOOL" ->
                      IF op = "XO_EQ"
                      THEN Ok(CBool(ctx2boolean(x1) = x2.bool))
                      ELSE IF op = "XO_NE"
                      THEN Ok(CBool(ctx2boolean(x1) # x2.bool))
                      ELSE Err(-1)
                 [] x2.type = "STRING" ->
                      Of(relop_nodeset_string(doc, x1.nodeset, x2.string,
                                              op, 1))
                 [] x2.type = "NUMBER" ->
                      Of(relop_nodeset_number(doc, x1.nodeset, x2.number, op,
                                              reverse, 1))

\* xp_relop(xc1, xc2, op, xrp)
xp_relop(doc, m, xc1, xc2, op) ==
    LET m1 == ctx_alloc(m)
        xr == [MkCtx(m.next, Root, xc1.initial) EXCEPT !.type = "BOOL"]
        Ok(b) == OpResult(0, [xr EXCEPT !.bool = IF b # 0 THEN 1 ELSE 0], m1)
        Err(r) == OpResult(r, NoCtx, m1)
        Of(b) == IF b < 0 THEN Err(b) ELSE Ok(b)
    IN IF xc1.type = xc2.type
       THEN CASE xc1.type = "NODESET" ->
                   Of(relop_nodesets(doc, xc1.nodeset, xc2.nodeset, op, 1, 1))
              [] xc1.type = "BOOL" -> Ok(CBool(xc1.bool = xc2.bool))
              [] xc1.type = "NUMBER" ->
                   Ok(CBool(NumOp("XO_EQ", xc1.number, xc2.number)))
              [] xc1.type = "STRING" ->
                   Ok(CBool(strcmp(xc1.string, xc2.string) = 0))
       ELSE IF xc1.type # "NODESET" /\ xc2.type # "NODESET"
       THEN Err(-1)
       ELSE LET reverse == xc2.type = "NODESET"
                x1 == IF reverse THEN xc2 ELSE xc1
                x2 == IF reverse THEN xc1 ELSE xc2
            IN CASE x2.type = "BOOL" ->
                      IF op = "XO_EQ"
                      THEN Ok(CBool(ctx2boolean(x1) = x2.bool))
                      ELSE IF op = "XO_NE"
                      THEN Ok(CBool(ctx2boolean(x1) # x2.bool))
                      ELSE Err(-1)
                 [] x2.type = "STRING" ->
                      Of(relop_nodeset_string(doc, x1.nodeset, x2.string,
                                              op, 1))
                 [] x2.type = "NUMBER" ->
                      Of(relop_nodeset_number(doc, x1.nodeset, x2.number, op,
                                              reverse, 1))

\* xp_logop(xc1, xc2, op, xrp)
xp_logop(m, xc1, xc2, op) ==
    LET m1 == ctx_alloc(m)
        xr == [MkCtx(m.next, Root, xc1.initial) EXCEPT !.type = "BOOL"]
        b1 == ctx2boolean(xc1)
        b2 == ctx2boolean(xc2)
    IN IF op = "XO_AND"
       THEN OpResult(0, [xr EXCEPT !.bool = CBool(b1 # 0 /\ b2 # 0)], m1)
       ELSE IF op = "XO_OR"
       THEN OpResult(0, [xr EXCEPT !.bool = CBool(b1 # 0 \/ b2 # 0)], m1)
       ELSE OpResult(-1, NoCtx, m1)

\* The remainder of C's % on the truncated doubles
CMod(a, b) == IF a >= 0 THEN a % (IF b < 0 THEN -b ELSE b)
              ELSE -((-a) % (IF b < 0 THEN -b ELSE b))

\* xp_numop(xc1, xc2, op, xrp).  A product or quotient that is no number
\* of halves is outside the model (-2), like a division by 0.
xp_numop(doc, m, xc1, xc2, op) ==
    LET m1 == ctx_alloc(m)
        xr == [MkCtx(m.next, Root, xc1.initial) EXCEPT !.type = "NUMBER"]
        n1 == ctx2number(doc, xc1)
        n2 == ctx2number(doc, xc2)
        Abs(n) == IF n < 0 THEN -n ELSE n
        Sign(a, b) == IF (a < 0) = (b < 0) THEN 1 ELSE -1
        Ok(n) == OpResult(0, [xr EXCEPT !.number = n], m1)
    IN IF n1 = NaN \/ n2 = NaN THEN Ok(NaN)
       ELSE CASE op = "XO_DIV" ->
                   IF n2 # 0 /\ (Abs(n1) * Scale) % Abs(n2) = 0
                   THEN Ok(Sign(n1, n2) * ((Abs(n1) * Scale) \div Abs(n2)))
                   ELSE OpResult(-2, NoCtx, m1)
              [] op = "XO_MOD" ->
                   IF CInt(n2) # 0 THEN Ok(Dbl(CMod(CInt(n1), CInt(n2))))
                   ELSE OpResult(-2, NoCtx, m1)
              [] op = "XO_ADD" -> Ok(n1 + n2)
              [] op = "XO_MULT" ->
                   IF (Abs(n1) * Abs(n2)) % Scale = 0
                   THEN Ok(Sign(n1, n2) * ((Abs(n1) * Abs(n2)) \div Scale))
                   ELSE OpResult(-2, NoCtx, m1)
              [] op = "XO_SUB" -> Ok(n1 - n2)
              [] OTHER -> OpResult(-1, NoCtx, m1)

\* xp_union(xc1, xc2, op, xrp)
xp_union(m, xc1, xc2, op) ==
    IF op # "XO_UNION" THEN OpResult(-1, NoCtx, m)
    ELSE OpResult(0, [MkCtx(m.next, Root, xc1.initial)
                        EXCEPT !.nodeset = xc1.nodeset \o xc2.nodeset],
                  ctx_alloc(m))

\* The result of xp_eval and of the functions it calls: retval (0, -1 error,
\* -2 the process stops at an assert or a NULL pointer), the context handed
\* over in xr, the caller's context xc as the call leaves it, and the
\* allocation record
EvResult(retval, xr, xc, m) == [retval |-> retval, xr |-> xr, xc |-> xc, m |-> m]

Axes == {"A_ANCESTOR", "A_ANCESTOR_OR_SELF", "A_ATTRIBUTE", "A_CHILD",
         "A_DESCENDANT", "A_DESCENDANT_OR_SELF", "A_FOLLOWING",
         "A_FOLLOWING_SIBLING", "A_NAMESPACE", "A_PARENT", "A_PRECEEDING",
         "A_PRECEEDING_SIBLING", "A_SELF"}

\* The concatenation of F(q[i]) for the elements of q
RECURSIVE FlatMap(_, _, _)
FlatMap(F(_), q, i) == IF i > Len(q) THEN << >> ELSE F(q[i]) \o FlatMap(F, q, i + 1)

\* A variant whose parent axis takes a shared parent once
StepNodeset_parent_once(doc, xc, xs, nsc) ==
    LET nodetest == xs.c0
        Desc(xv) == nodetest_recursive(doc, xv, nodetest, nsc)
        Kids(xv) ==
            LET ch == ChildSeq(doc, xv)
                K(x) == IF nodetest.type = "NONE"
                           \/ nodetest_eval(ElemOf(x), nodetest, nsc) = 1
                        THEN <<x>> ELSE << >>
            IN FlatMap(K, ch, 1)
        Up(x) == IF x # Root THEN <<Parent(x)>> ELSE << >>
        ups == FlatMap(Up, xc.nodeset, 1)
        First(i) == \A j \in 1..(i - 1) : ups[j] # ups[i]
        idx == SelectSeq([i \in 1..Len(ups) |-> i], First)
    IN CASE xs.int = "A_CHILD" ->
              IF xc.descendant = 1
              THEN [xc EXCEPT !.nodeset = FlatMap(Desc, xc.nodeset, 1),
                              !.descendant = 0]
              ELSE IF nodetest.type = "NODE_FN" /\ nodetest.s0 = "current"
              THEN [xc EXCEPT !.nodeset = <<xc.initial>>]
              ELSE [xc EXCEPT !.nodeset = FlatMap(Kids, xc.nodeset, 1)]
         [] xs.int \in {"A_DESCENDANT", "A_DESCENDANT_OR_SELF"} ->
              [xc EXCEPT !.nodeset = FlatMap(Desc, xc.nodeset, 1)]
         [] xs.int = "A_PARENT" ->
              [xc EXCEPT !.nodeset = [k \in 1..Len(idx) |-> ups[idx[k]]]]
         [] OTHER -> xc

\* xp_eval_step: the node-set of the step's axis and node test
StepNodeset(doc, xc, xs, nsc) ==
    LET nodetest == xs.c0
        Desc(xv) == nodetest_recursive(doc, xv, nodetest, nsc)
        Kids(xv) ==
            LET ch == ChildSeq(doc, xv)
                K(x) == IF nodetest.type = "NONE"
                           \/ nodetest_eval(ElemOf(x), nodetest, nsc) = 1
                        THEN <<x>> ELSE << >>
            IN FlatMap(K, ch, 1)
        Up(x) == IF x # Root THEN <<Parent(x)>> ELSE << >>
    IN CASE xs.int = "A_CHILD" ->
              IF xc.descendant = 1
              THEN [xc EXCEPT !.nodeset = FlatMap(Desc, xc.nodeset, 1),
                              !.descendant = 0]
              ELSE IF nodetest.type = "NODE_FN" /\ nodetest.s0 = "current"
              THEN [xc EXCEPT !.nodeset = <<xc.initial>>]
              ELSE [xc EXCEPT !.nodeset = FlatMap(Kids, xc.nodeset, 1)]
         [] xs.int \in {"A_DESCENDANT", "A_DESCENDANT_OR_SELF"} ->
              [xc EXCEPT !.nodeset = FlatMap(Desc, xc.nodeset, 1)]
         [] xs.int = "A_PARENT" ->
              [xc EXCEPT !.nodeset = FlatMap(Up, xc.nodeset, 1)]
         [] OTHER -> xc

RECURSIVE xp_eval_ctx(_, _, _, _, _)
RECURSIVE xp_eval_step_ctx(_, _, _, _, _)
RECURSIVE xp_eval_predicate(_, _, _, _, _)
RECURSIVE predicate_loop(_, _, _, _, _, _, _, _)

\* xp_eval_step(xc0, xs, nsc, xrp)
xp_eval_step_ctx(doc, m, xc0, xs, nsc) ==
    LET m1 == ctx_alloc(m)
        dup == ctx_dup(m, xc0)
    IN IF xs.int \notin Axes
       THEN EvResult(-1, NoCtx, xc0, ctx_free(m1, dup))
       ELSE LET xc == StepNodeset(doc, dup, xs, nsc)
            IN IF xs.c1.type # "NONE"
               THEN LET r == xp_eval_ctx(doc, m1, xc, xs.c1, nsc)
                    IN IF r.retval = -2 THEN EvResult(-2, NoCtx, xc0, r.m)
                       ELSE EvResult(r.retval, r.xr, xc0, ctx_free(r.m, xc))
               ELSE EvResult(0, xc, xc0, m1)

\* xp_eval_predicate: the loop over the nodes of xr0; xr1 collects the
\* nodes kept, xrc is the pointer the previous round left
predicate_loop(doc, m, xc, xs, nsc, xr0, xr1, i) ==
    IF i > Len(xr0.nodeset)
    THEN EvResult(0, xr1, xc, ctx_free(m, xr0))
    ELSE LET x == xr0.nodeset[i]
             m1 == ctx_alloc(m)
             xcc == [MkCtx(m.next, x, xc.initial) EXCEPT !.nodeset = <<x>>]
             r == xp_eval_ctx(doc, m1, xcc, xs.c1, nsc)
         IN IF r.retval = -2 THEN EvResult(-2, NoCtx, xc, r.m)
            ELSE IF r.retval < 0
            THEN EvResult(-1, NoCtx, xc, ctx_free(ctx_free(r.m, xr0), xr1))
            ELSE IF r.xr.type = "NUMBER" /\ r.xr.number = NaN
            THEN \* (int)NAN is undefined
                 EvResult(-2, NoCtx, xc, r.m)
            ELSE LET m2 == ctx_free(r.m, xcc)
                     xrc == r.xr
                     keep == IF xrc.type = "NUMBER"
                             THEN CInt(xrc.number) = i - 1
                             ELSE ctx2boolean(xrc) # 0
                     xr1n == IF keep
                             THEN [xr1 EXCEPT !.nodeset = Append(@, x)]
                             ELSE xr1
                 IN predicate_loop(doc, ctx_free(m2, xrc), xc, xs, nsc, xr0,
                                   xr1n, i + 1)

\* xp_eval_predicate(xc, xs, nsc, xrp)
xp_eval_predicate(doc, m, xc, xs, nsc) ==
    LET r0 == IF xs.c0.type = "NONE"
              THEN EvResult(0, ctx_dup(m, xc), xc, ctx_alloc(m))
              ELSE xp_eval_ctx(doc, m, xc, xs.c0, nsc)
    IN IF r0.retval < 0 THEN EvResult(r0.retval, NoCtx, r0.xc, r0.m)
       ELSE IF xs.c1.type = "NONE" THEN r0
       ELSE IF r0.xr.type # "NODESET" THEN EvResult(-2, NoCtx, r0.xc, r0.m)
       ELSE LET m1 == ctx_alloc(r0.m)
                xr1 == MkCtx(r0.m.next, r0.xc.node, r0.xc.initial)
            IN predicate_loop(doc, m1, r0.xc, xs, nsc, r0.xr, xr1, 1)

\* The root ancestor of a node (while (xml_parent(x) != NULL) x = xml_parent(x))
RootOf(n) == Root

\* xp_eval(xc, xs, nsc, xrp)
xp_eval_ctx(doc, m, xc_in, xs, nsc) ==
    LET \* Pre-actions before the first child
        xc_pre ==
            IF xs.type = "RELLOCPATH"
            THEN IF xs.int = "A_DESCENDANT_OR_SELF"
                 THEN [xc_in EXCEPT !.descendant = 1] ELSE xc_in
            ELSE IF xs.type = "ABSPATH"
            THEN [xc_in EXCEPT
                    !.node = RootOf(xc_in.node),
                    !.nodeset = <<RootOf(xc_in.node)>>,
                    !.descendant = IF xs.int = "A_DESCENDANT_OR_SELF"
                                   THEN 1 ELSE @]
            ELSE xc_in
    IN IF xs.type = "STEP" THEN xp_eval_step_ctx(doc, m, xc_in, xs, nsc)
       ELSE IF xs.type = "PRED" THEN xp_eval_predicate(doc, m, xc_in, xs, nsc)
       ELSE
       LET \* Eval first child c0
           r0 == IF xs.c0.type # "NONE"
                 THEN xp_eval_ctx(doc, m, xc_pre, xs.c0, nsc)
                 ELSE EvResult(0, NoCtx, xc_pre, m)
       IN IF r0.retval < 0 THEN EvResult(r0.retval, NoCtx, r0.xc, r0.m)
          ELSE
          LET \* Actions between the first and the second child
              use_xr0 == xs.type \in {"ABSPATH", "RELLOCPATH"}
              fresh == MkCtx(r0.m.next, Root, r0.xc.initial)
              makes == \/ xs.type = "ABSPATH" /\ xs.c0.type = "NONE"
                       \/ xs.type \in {"PRIME_NR", "PRIME_STR"}
              xr0 == CASE xs.type = "ABSPATH" /\ xs.c0.type = "NONE" ->
                            [fresh EXCEPT
                               !.nodeset = ChildSeq(doc, r0.xc.node)]
                       [] xs.type = "PRIME_NR" ->
                            [fresh EXCEPT !.type = "NUMBER",
                                          !.number = xs.double]
                       [] xs.type = "PRIME_STR" ->
                            [fresh EXCEPT !.type = "STRING", !.string = xs.s0]
                       [] OTHER -> r0.xr
              m_mid == IF makes THEN ctx_alloc(r0.m) ELSE r0.m
              xc_mid == IF xs.type = "RELLOCPATH"
                           /\ xs.int = "A_DESCENDANT_OR_SELF"
                        THEN [r0.xc EXCEPT !.descendant = 1] ELSE r0.xc
              has_c1 == xs.c1.type # "NONE"
          IN IF has_c1 /\ use_xr0 /\ xr0.type = "NONE"
             THEN EvResult(-2, NoCtx, xc_mid, m_mid)
             ELSE
             LET \* Eval second child c1, on xr0 or on xc
                 r1 == IF has_c1
                       THEN xp_eval_ctx(doc, m_mid,
                                        IF use_xr0 THEN xr0 ELSE xc_mid,
                                        xs.c1, nsc)
                       ELSE EvResult(0, NoCtx, xc_mid, m_mid)
                 xr0_1 == IF has_c1 /\ use_xr0 THEN r1.xc ELSE xr0
                 xc_1 == IF has_c1 /\ ~use_xr0 THEN r1.xc ELSE xc_mid
             IN IF r1.retval = -2 THEN EvResult(-2, NoCtx, xc_1, r1.m)
                ELSE IF r1.retval < 0
                THEN EvResult(-1, NoCtx, xc_1, ctx_free_opt(r1.m, xr0_1))
                ELSE
                LET \* Actions after the second child
                    xr1 == r1.xr
                    r2 == IF ~has_c1 THEN OpResult(0, NoCtx, r1.m)
                          ELSE CASE xs.type = "AND" ->
                                      xp_logop(r1.m, xr0_1, xr1, xs.int)
                                 [] xs.type = "RELEX" ->
                                      xp_relop(doc, r1.m, xr0_1, xr1, xs.int)
                                 [] xs.type = "ADD" ->
                                      xp_numop(doc, r1.m, xr0_1, xr1, xs.int)
                                 [] xs.type = "UNION" ->
                                      xp_union(r1.m, xr0_1, xr1, xs.int)
                                 [] OTHER -> OpResult(0, NoCtx, r1.m)
                    xr2 == r2.xr
                    xc_out == [xc_1 EXCEPT !.descendant = 0]
                IN IF r2.retval = -2 THEN EvResult(-2, NoCtx, xc_1, r2.m)
                   ELSE IF r2.retval < 0
                   THEN EvResult(-1, NoCtx, xc_1,
                                 ctx_free_opt(ctx_free_opt(r2.m, xr1), xr0_1))
                   ELSE IF xr2.type # "NONE"
                   THEN EvResult(0, xr2, xc_out,
                                 ctx_free_opt(ctx_free_opt(r2.m, xr1), xr0_1))
                   ELSE IF xr1.type # "NONE"
                   THEN EvResult(0, xr1, xc_out, ctx_free_opt(r2.m, xr0_1))
                   ELSE IF xr0_1.type # "NONE"
                   THEN EvResult(0, xr0_1, xc_out, r2.m)
                   ELSE EvResult(-2, NoCtx, xc_out, r2.m)

(***************************************************************************)
(* Calls of the evaluator: documents, syntax trees and operands            *)
(***************************************************************************)
\* Leaves of a syntax tree
\* A number literal with an integer value
XsNumber(n) == MkXs("PRIME_NR", "", NULL, NULL, Dbl(n), NoXs, NoXs)

\* A number literal of h halves: XsHalves(3) is 1.5
XsHalves(h) == MkXs("PRIME_NR", "", NULL, NULL, h, NoXs, NoXs)

XsString(s) == MkXs("PRIME_STR", "", s, NULL, 0, NoXs, NoXs)

XsNode(prefix, name) == MkXs("NODE", "", prefix, name, 0, NoXs, NoXs)

XsNodeFn(fn) == MkXs("NODE_FN", "", fn, NULL, 0, NoXs, NoXs)

\* step -> axis nodetest predicates
XsStep(axis, nodetest, preds) == MkXs("STEP", axis, NULL, NULL, 0, nodetest, preds)

\* pred -> pred [ expr ]
XsPred(prev, expr) == MkXs("PRED", "", NULL, NULL, 0, prev, expr)

\* A child step on a name, without predicates
XsChild(name) == XsStep("A_CHILD", XsNode(NULL, name), NoXs)

\* abslocpath -> / , / rellocpath , // rellocpath
XsAbsPath(int, c0) == MkXs("ABSPATH", int, NULL, NULL, 0, c0, NoXs)

\* rellocpath -> rellocpath / step , rellocpath // step
XsRelPath(int, c0, c1) == MkXs("RELLOCPATH", int, NULL, NULL, 0, c0, c1)

\* A binary expression of type AND, RELEX, ADD or UNION
XsBin(type, op, a, b) == MkXs(type, op, NULL, NULL, 0, a, b)

\* expr with one child (pass-through levels of the grammar)
XsExp(a) == MkXs("EXP", "", NULL, NULL, 0, a, NoXs)

\* The documents the evaluator is called on
XpDocs ==
    {TopTree,
     MkTree({1, 2, 3, 4, 5, 6}, [NoBody EXCEPT ![5] = "5", ![6] = "7"]),
     MkTree({1, 5, 6, CfgEntry(0), CfgEntry(1)},
            [NoBody EXCEPT ![5] = "5", ![CfgEntry(0)] = "a",
                           ![CfgEntry(1)] = "b"]),
     MkTree({1, 5, 6, 7, 8}, [NoBody EXCEPT ![5] = "5", ![6] = "7", ![8] = "5"])}

\* Paths: /, /a, /a/b, /a/x, /a/y, /l, //x, a//c, b//c, a//x, .., */..,
\* */parent::b, /a/*, text() and node() steps
XpPaths ==
    {XsAbsPath("A_ROOT", NoXs),
     XsAbsPath("A_ROOT", XsChild("a")),
     XsAbsPath("A_ROOT", XsRelPath("A_CHILD", XsChild("a"), XsChild("b"))),
     XsAbsPath("A_ROOT", XsRelPath("A_CHILD", XsChild("a"), XsChild("x"))),
     XsAbsPath("A_ROOT", XsRelPath("A_CHILD", XsChild("a"), XsChild("y"))),
     XsAbsPath("A_ROOT", XsChild("l")),
     XsAbsPath("A_DESCENDANT_OR_SELF", XsChild("x")),
     XsRelPath("A_DESCENDANT_OR_SELF", XsChild("a"), XsChild("c")),
     XsRelPath("A_DESCENDANT_OR_SELF", XsChild("b"), XsChild("c")),
     XsRelPath("A_DESCENDANT_OR_SELF", XsChild("a"), XsChild("x")),
     XsStep("A_PARENT", XsNodeFn("node"), NoXs),
     XsRelPath("A_CHILD", XsChild("*"),
               XsStep("A_PARENT", XsNodeFn("node"), NoXs)),
     XsRelPath("A_CHILD", XsChild("*"),
               XsStep("A_PARENT", XsNode(NULL, "b"), NoXs)),
     XsAbsPath("A_ROOT", XsRelPath("A_CHILD", XsChild("a"), XsChild("*"))),
     XsStep("A_CHILD", XsNodeFn("text"), NoXs),
     XsStep("A_CHILD", XsNodeFn("node"), NoXs)}

\* Literals
XpLiterals == {XsNumber(0), XsNumber(1), XsNumber(2), XsString(""),
               XsString("a"), XsString("b")}

\* Comparisons of literals and of paths
XpComparisons ==
    {XsBin("RELEX", op, a, b) :
        op \in RelOps, a \in {XsNumber(1), XsString("a")},
        b \in {XsNumber(1), XsNumber(2), XsString("a"), XsString("b")}}
    \cup
    {XsBin("RELEX", op,
           XsAbsPath("A_ROOT", XsRelPath("A_CHILD", XsChild("a"), XsChild("x"))),
           b) :
        op \in {"XO_EQ", "XO_LT"},
        b \in {XsString("5"), XsNumber(5),
               XsAbsPath("A_ROOT", XsRelPath("A_CHILD", XsChild("a"),
                                             XsChild("y")))}}

\* and, or, +, | and steps with predicates
XpCompound ==
    {XsBin("AND", op, a, b) :
        op \in {"XO_AND", "XO_OR"}, a \in {XsNumber(0), XsNumber(1)},
        b \in {XsNumber(0), XsString("a"),
               XsBin("RELEX", "XO_EQ", XsNumber(1), XsString("a"))}}
    \cup
    {XsBin("ADD", "XO_ADD", XsNumber(1), XsNumber(2)),
     XsBin("UNION", "XO_UNION", XsAbsPath("A_ROOT", XsChild("a")),
           XsChild("x")),
     XsExp(XsBin("UNION", "XO_UNION", XsChild("a"), XsNumber(1)))}
    \cup
    {XsStep("A_CHILD", XsNode(NULL, name), XsPred(NoXs, e)) :
        name \in {"a", "l", "*"},
        e \in {XsNumber(0), XsNumber(1), XsHalves(1), XsHalves(3),
               XsChild("x"), XsString(""),
               XsBin("ADD", "XO_DIV", XsNumber(1), XsNumber(2)),
               XsBin("RELEX", "XO_EQ", XsChild("x"), XsString("5")),
               XsBin("RELEX", "XO_EQ", XsNumber(1), XsString("a"))}}

\* The path */*[e1]..[en]: a step with predicates over several context nodes
XsGrandchildren(preds) ==
    XsRelPath("A_CHILD", XsChild("*"),
              XsStep("A_CHILD", XsNode(NULL, "*"), preds))

\* The predicate expression . = '5'
XsSelfIsFive ==
    XsBin("RELEX", "XO_EQ", XsStep("A_SELF", XsNodeFn("node"), NoXs),
          XsString("5"))

\* */*[n] and */*[. = '5'][n]
XpPositional ==
    {XsGrandchildren(XsPred(prev, XsNumber(n))) :
        prev \in {NoXs, XsPred(NoXs, XsSelfIsFive)}, n \in {0, 1, 2}}

XpExprs ==
    XpPaths \cup XpLiterals \cup XpComparisons \cup XpCompound
      \cup XpPositional

\* The context xpath_vec and its siblings hand to xp_eval: the node-set
\* holds the context node
InitialCtx(node) == [MkCtx(0, node, node) EXCEPT !.nodeset = <<node>>]

\* A call of one function of the evaluator with its arguments
MkCall(fn, doc, node, xs, nsc, x, xc1, xc2, op) ==
    [fn |-> fn, doc |-> doc, node |-> node, xs |-> xs, nsc |-> nsc, x |-> x,
     xc1 |-> xc1, xc2 |-> xc2, op |-> op]

NoCall == MkCall("none", NullTree, Root, NoXs, NoNsc, ElemOf(Root), NoCtx,
                 NoCtx, "")

\* Calls of xp_eval
EvalCalls ==
    UNION {{[NoCall EXCEPT !.fn = "xp_eval", !.doc = d, !.node = n,
                           !.xs = xs] :
               n \in d.nodes \cap {Root, 1, 5}, xs \in XpExprs} :
           d \in XpDocs}

\* Operand contexts of xp_relop on a document
Operands(doc) ==
    {[InitialCtx(Root) EXCEPT !.nodeset = ns] :
        ns \in {q \in {<< >>, <<5>>, <<6>>, <<5, 6>>, <<6, 5>>, <<1, 5>>,
                        <<CfgEntry(0), CfgEntry(1)>>} :
                  Range(q) \subseteq doc.nodes}}
    \cup {[MkCtx(0, Root, Root) EXCEPT !.type = "NUMBER", !.number = Dbl(n)] :
            n \in {1, 2}}
    \cup {[MkCtx(0, Root, Root) EXCEPT !.type = "BOOL", !.bool = b] :
            b \in {0, 1}}
    \cup {[MkCtx(0, Root, Root) EXCEPT !.type = "STRING", !.string = s] :
            s \in {"a", "b"}}

\* Calls of xp_relop: node-sets of elements that are in the document
RelopCalls ==
    UNION {{[NoCall EXCEPT !.fn = "xp_relop", !.doc = d, !.xc1 = a,
                           !.xc2 = b, !.op = op] :
               a \in Operands(d), b \in Operands(d), op \in RelOps} :
           d \in XpDocs \ {TopTree}}

\* Elements, node tests and namespace contexts of nodetest_eval_node
NsMaps == {[p \in Prefixes |-> IF p = "p" THEN u ELSE IF p = "q" THEN v ELSE w] :
             u \in URIs \cup {NULL}, v \in {"urn:a", NULL}, w \in {"urn:b", NULL}}

NodetestCalls ==
    {[NoCall EXCEPT !.fn = "nodetest_eval_node",
                    !.x = MkElem(name1, prefix1, ns),
                    !.xs = XsNode(prefix2, name2),
                    !.nsc = nsc] :
        name1 \in {"a", "b"}, prefix1 \in Prefixes, ns \in NsMaps,
        prefix2 \in Prefixes, name2 \in {"a", "*"},
        nsc \in {NoNsc} \cup {MkNsc(mp) : mp \in NsMaps}}

\* Calls of xp_union, with the union operator and with another one
UnionCalls ==
    UNION {{[NoCall EXCEPT !.fn = "xp_union", !.doc = d, !.xc1 = a,
                           !.xc2 = b, !.op = op] :
               a \in Operands(d), b \in Operands(d),
               op \in {"XO_UNION", "XO_ADD"}} :
           d \in XpDocs \ {TopTree}}

XpCalls == EvalCalls \cup RelopCalls \cup NodetestCalls \cup UnionCalls

\* No result yet
NoResult == EvResult(0, NoCtx, NoCtx, NoMem)


(***************************************************************************)
(* The handler as a state machine: one request runs from "recv" to "done". *)
(***************************************************************************)
VARIABLES
    pag_cb,    \* the calls of the pagination state callback so far
    pc,        \* position of the handler in from_client_get*/get_common
    req_filter, \* request: "none" (no <filter>), "noselect", "ok" or "bad"
                \* (a select that xpath2canonical rejects)
    req_depth, \* request: the depth attribute (NULL: none)
    content,   \* netconf_content of the request
    db,        \* name of the source datastore
    xpath,     \* canonical XPath of the filter (NullXPath: none)
    depth,     \* int32_t depth, -1 is all
    wdmode,    \* body of the with-defaults element once it was read
    paginated, \* the request has a list-pagination element
    list_config, \* pagination: the target is a config list
    offset,    \* uint32_t offset of list-pagination
    limit,     \* uint32_t limit of list-pagination
    xret,      \* result tree being built
    xvec,      \* node-set of the XPath on xret
    selected,  \* xpath_vec was evaluated
    cbret,     \* reply buffer: the sequence of replies written
    retval,    \* return value of the handler (NULL while it runs)
    stored,    \* pagination: the entries of list l in the datastore read
    dserr,     \* clicon_err_reason of a failed datastore read
    validate,  \* option CLICON_VALIDATE_STATE_XML
    trace,     \* the steps executed so far
    xp_pc,     \* evaluator: "idle", "call" or "return"
    xp_call,   \* evaluator: the function called and its arguments
    xp_out     \* evaluator: what the call returned

\* The variables of the request handler
backend_vars == <<pc, req_filter, req_depth, content, db, xpath, depth, wdmode,
                  paginated, list_config, offset, limit, xret, xvec, selected,
                  cbret, retval, stored, dserr, validate, trace, pag_cb>>

\* The variables of the XPath evaluator
xp_vars == <<xp_pc, xp_call, xp_out>>

vars == <<backend_vars, xp_vars>>

Init ==
    /\ pc = "recv"
    /\ req_filter \in {"none", "noselect", "ok", "bad"}
    /\ req_depth \in DepthAttrs
    /\ content = "all"
    /\ db = NULL
    /\ xpath = NullXPath
    /\ depth = -1
    /\ wdmode = "unread"
    /\ paginated = FALSE
    /\ list_config = FALSE
    /\ offset = U32(0)
    /\ limit = U32(0)
    /\ xret = NullTree
    /\ xvec = << >>
    /\ selected = FALSE
    /\ cbret = << >>
    /\ retval = NULL
    /\ stored = {}
    /\ dserr = NULL
    /\ validate = FALSE
    /\ trace = << >>
    /\ pag_cb = << >>
    /\ xp_pc = "idle"
    /\ xp_call = NoCall
    /\ xp_out = NoResult

\* An <rpc-reply> with an <rpc-error>
ErrorReply(tag, info) ==
    [kind |-> "error", tag |-> tag, info |-> info, nodes |-> {},
     tree |-> NullTree]

\* An <rpc-reply> written by get_nacm_and_reply: nodes are the elements
\* serialised, tree is the tree they were serialised from
DataReply(t, printed) ==
    [kind |-> IF Root \in printed \/ t.isnull THEN "data" ELSE "empty",
     tag |-> "", info |-> << >>, nodes |-> printed, tree |-> t]

\* goto done with retval, or goto ok (0)
Return(r) ==
    /\ retval' = (IF r = 0 THEN "0" ELSE "-1")
    /\ pc' = "done"

Step(name) == trace' = Append(trace, name)

\* The XPath the handler evaluates: xpath?xpath:"/"
XPathOrRoot == IF xpath.isnull THEN MkXPath(<< >>) ELSE xpath


\* get_nacm_and_reply(h, xret, xvec, xlen, xpath, nsc, username, depth, cbret)
\* with the elements the NACM policy denies the user
get_nacm_and_reply(t, denied, d) ==
    LET t1 == nacm_datanode_read(t, denied)
    IN [tree |-> t1,
        reply |-> DataReply(t1, IF t1.isnull THEN {}
                                ELSE clixon_xml2cbuf(t1, ReplyDepth(d)))]

\* A variant where the error reply is followed by goto done
BadAttribute_fatal(name) ==
    /\ cbret' = Append(cbret, ErrorReply("bad-attribute", <<name>>))
    /\ Return(-1)

\* netconf_bad_attribute(cbret, "application", name, ...) and goto ok
BadAttribute(name) ==
    /\ cbret' = Append(cbret, ErrorReply("bad-attribute", <<name>>))
    /\ Return(0)

(***************************************************************************)
(* from_client_get_config, from_client_get and get_common                  *)
(***************************************************************************)
from_client_get_config ==
    /\ pc = "recv"
    /\ \E source \in {NULL, "running"} :
         IF source = NULL
         THEN /\ Return(-1)
              /\ UNCHANGED <<content, db>>
         ELSE /\ content' = "config"
              /\ db' = source
              /\ pc' = "filter"
              /\ UNCHANGED retval
    /\ UNCHANGED <<xpath, depth, wdmode, paginated, list_config, offset, limit,
                   xret, xvec, selected, cbret, stored, dserr, validate,
                   trace>>
    /\ UNCHANGED <<req_filter, req_depth, pag_cb, xp_vars>>

from_client_get ==
    /\ pc = "recv"
    /\ \E attr \in {NULL, "config", "nonconfig", "all", "bogus"} :
         content' = (IF attr = NULL THEN "all"
                     ELSE netconf_content_str2int(attr))
    /\ validate' \in (IF content' = "config" THEN {FALSE} ELSE BOOLEAN)
    /\ db' = "running"
    /\ pc' = "filter"
    /\ UNCHANGED <<xpath, depth, wdmode, paginated, list_config, offset, limit,
                   xret, xvec, selected, cbret, retval, stored, dserr, trace>>
    /\ UNCHANGED <<req_filter, req_depth, pag_cb, xp_vars>>

\* get_common: the <filter> element and the canonical form of its select
get_common_filter ==
    /\ pc = "filter"
    /\ \/ /\ req_filter = "none"
          /\ pc' = "depth"
          /\ UNCHANGED <<xpath, cbret, retval, trace>>
       \/ \* filter without select: xpath0 = "/"
          /\ req_filter = "noselect"
          /\ xpath' = MkXPath(<< >>)
          /\ pc' = "depth"
          /\ Step("xpath2canonical")
          /\ UNCHANGED <<cbret, retval>>
       \/ \* xpath2canonical returns 1
          /\ req_filter = "ok"
          /\ \E st \in Selects : xpath' = MkXPath(st)
          /\ pc' = "depth"
          /\ Step("xpath2canonical")
          /\ UNCHANGED <<cbret, retval>>
       \/ \* xpath2canonical returns 0
          /\ req_filter = "bad"
          /\ BadAttribute("select")
          /\ Step("xpath2canonical")
          /\ UNCHANGED xpath
    /\ UNCHANGED <<content, db, depth, wdmode, paginated, list_config, offset,
                   limit, xret, xvec, selected, stored, dserr, validate>>
    /\ UNCHANGED <<req_filter, req_depth, pag_cb, xp_vars>>

\* get_common: the depth attribute
get_common_depth ==
    /\ pc = "depth"
    /\ IF req_depth = NULL
       THEN /\ pc' = "pagination"
            /\ UNCHANGED <<depth, cbret, retval, trace>>
       ELSE /\ Step("parse_int32")
            /\ IF parse_int32(req_depth).ok
               THEN /\ depth' = parse_int32(req_depth).val
                    /\ pc' = "pagination"
                    /\ UNCHANGED <<cbret, retval>>
               ELSE /\ BadAttribute("depth")
                    /\ UNCHANGED depth
    /\ UNCHANGED <<content, db, xpath, wdmode, paginated, list_config, offset,
                   limit, xret, xvec, selected, stored, dserr, validate>>
    /\ UNCHANGED <<req_filter, req_depth, pag_cb, xp_vars>>

\* get_common: branch to get_list_pagination if the request has a
\* list-pagination element
get_common_pagination ==
    /\ pc = "pagination"
    /\ \E present \in BOOLEAN :
         /\ paginated' = present
         /\ pc' = IF present THEN "pag_check" ELSE "read_config"
    /\ UNCHANGED <<content, db, xpath, depth, wdmode, list_config, offset,
                   limit, xret, xvec, selected, cbret, retval, stored, dserr,
                   validate, trace>>
    /\ UNCHANGED <<req_filter, req_depth, pag_cb, xp_vars>>

\* A variant where a failed read ends the request with goto done
DatastoreFailed_fatal(reason) ==
    /\ dserr' = reason
    /\ Return(-1)
    /\ UNCHANGED <<cbret, xret, stored>>

\* The datastore read failed: operation-failed with the reason
DatastoreFailed(reason) ==
    /\ dserr' = reason
    /\ cbret' = Append(cbret, ErrorReply("operation-failed", <<db, reason>>))
    /\ Return(0)
    /\ UNCHANGED <<xret, stored>>

\* get_common: read configuration
get_common_read_config ==
    /\ pc = "read_config"
    /\ \/ /\ content = "config"
             \/ (content \in {"all", "nonconfig"} /\ validate)
             \/ (content = "all" /\ ~validate)
          /\ Step("xmldb_get0")
          /\ \/ \E st \in StoredTrees :
                  /\ xret' = xmldb_get0(st, IF content # "config" /\ validate
                                            THEN MkXPath(<< >>)
                                            ELSE XPathOrRoot)
                  /\ pc' = "read_state"
                  /\ UNCHANGED <<cbret, retval, dserr, stored>>
             \/ \E reason \in {"ENOENT", "EACCES"} : DatastoreFailed(reason)
       \/ /\ content = "nonconfig" /\ ~validate
          /\ Step("xml_new")
          /\ xret' = TopTree
          /\ pc' = "read_state"
          /\ UNCHANGED <<cbret, retval, stored, dserr>>
       \/ /\ content = "unknown"
          /\ pc' = "read_state"
          /\ UNCHANGED <<xret, cbret, retval, stored, dserr, trace>>
    /\ UNCHANGED <<content, db, xpath, depth, wdmode, paginated, list_config,
                   offset, limit, xvec, selected, validate>>
    /\ UNCHANGED <<req_filter, req_depth, pag_cb, xp_vars>>

\* get_common: read state (get_client_statedata merges the state data of
\* the plugins and then applies the defaults)
get_common_read_state ==
    /\ pc = "read_state"
    /\ \/ /\ content \in {"config", "unknown"}
          /\ pc' = "with_defaults"
          /\ UNCHANGED <<xret, cbret, retval, trace>>
       \/ /\ content \in {"all", "nonconfig"}
          /\ \/ \E sd \in StateTrees :
                  /\ xret' = xml_default_recurse(xml_merge(xret, sd), TRUE)
                  /\ trace' = trace \o <<"clixon_plugin_statedata_all",
                                         "xml_default_recurse">>
                  /\ pc' = "with_defaults"
                  /\ UNCHANGED <<cbret, retval>>
             \/ \* a state callback failed: the error is in xret
                /\ cbret' = Append(cbret,
                                   ErrorReply("operation-failed", <<"statedata">>))
                /\ Step("clixon_plugin_statedata_all")
                /\ Return(0)
                /\ UNCHANGED xret
    /\ UNCHANGED <<content, db, xpath, depth, wdmode, paginated, list_config,
                   offset, limit, xvec, selected, stored, dserr, validate>>
    /\ UNCHANGED <<req_filter, req_depth, pag_cb, xp_vars>>

\* with_defaults(xe, xret) as the handler calls it; next is the step after
WithDefaultsStep(next) ==
    /\ \E wd \in WdModes :
         LET r == with_defaults(wd, xret)
         IN /\ wdmode' = wd
            /\ IF r.retval < 0 \/ (xret.isnull /\ wd = "report-all-tagged")
               THEN /\ Return(-1)
                    /\ UNCHANGED xret
               ELSE /\ xret' = r.tree
                    /\ pc' = next
                    /\ UNCHANGED retval
    /\ Step("with_defaults")

get_common_with_defaults ==
    /\ pc = "with_defaults"
    /\ WithDefaultsStep("validate")
    /\ UNCHANGED <<content, db, xpath, depth, paginated, list_config, offset,
                   limit, xvec, selected, cbret, stored, dserr, validate>>
    /\ UNCHANGED <<req_filter, req_depth, pag_cb, xp_vars>>

\* get_common: validate the state data if CLICON_VALIDATE_STATE_XML
get_common_validate ==
    /\ pc = "validate"
    /\ IF content # "config" /\ validate
       THEN /\ Step("xml_yang_validate")
            /\ IF xret.isnull
               THEN /\ Return(-1)
                    /\ UNCHANGED cbret
               ELSE \/ /\ pc' = "nonconfig"
                       /\ UNCHANGED <<cbret, retval>>
                    \/ /\ cbret' = Append(cbret,
                                     ErrorReply("operation-failed", <<"validate">>))
                       /\ Return(0)
       ELSE /\ pc' = "nonconfig"
            /\ UNCHANGED <<cbret, retval, trace>>
    /\ UNCHANGED <<content, db, xpath, depth, wdmode, paginated, list_config,
                   offset, limit, xret, xvec, selected, stored, dserr,
                   validate>>
    /\ UNCHANGED <<req_filter, req_depth, pag_cb, xp_vars>>

\* get_common: state only, remove everything that is config
get_common_nonconfig ==
    /\ pc = "nonconfig"
    /\ IF content = "nonconfig"
       THEN /\ xret' = xml_flag_reset_mark(
                         xml_tree_prune_flagged_sub(xml_non_config_data(xret)))
            /\ Step("xml_non_config_data")
       ELSE UNCHANGED <<xret, trace>>
    /\ pc' = "xpath_vec"
    /\ UNCHANGED <<content, db, xpath, depth, wdmode, paginated, list_config,
                   offset, limit, xvec, selected, cbret, retval, stored, dserr,
                   validate>>
    /\ UNCHANGED <<req_filter, req_depth, pag_cb, xp_vars>>

\* xpath_vec(xret, nsc, "%s", &xvec, &xlen, xpath?xpath:"/")
XpathVecStep(next) ==
    /\ IF xret.isnull
       THEN /\ Return(-1)
            /\ UNCHANGED <<xvec, selected>>
       ELSE /\ xvec' = xpath_vec(xret, XPathOrRoot)
            /\ selected' = TRUE
            /\ pc' = next
            /\ UNCHANGED retval
    /\ Step("xpath_vec")

get_common_xpath_vec ==
    /\ pc = "xpath_vec"
    /\ XpathVecStep("filter_xpath_again")
    /\ UNCHANGED <<content, db, xpath, depth, wdmode, paginated, list_config,
                   offset, limit, xret, cbret, stored, dserr, validate>>
    /\ UNCHANGED <<req_filter, req_depth, pag_cb, xp_vars>>

FilterStep(next) ==
    /\ LET r == filter_xpath_again(xret, xvec)
       IN IF r.retval < 0
          THEN /\ Return(-1)
               /\ UNCHANGED xret
          ELSE /\ xret' = r.tree
               /\ pc' = next
               /\ UNCHANGED retval
    /\ Step("filter_xpath_again")

get_common_filter_xpath_again ==
    /\ pc = "filter_xpath_again"
    /\ FilterStep("reply")
    /\ UNCHANGED <<content, db, xpath, depth, wdmode, paginated, list_config,
                   offset, limit, xvec, selected, cbret, stored, dserr,
                   validate>>
    /\ UNCHANGED <<req_filter, req_depth, pag_cb, xp_vars>>

\* A variant that writes the reply before the NACM gate
ReplyStep_write_first ==
    /\ \E denied \in NacmDenied :
         LET r == get_nacm_and_reply(xret, denied, depth)
         IN /\ xret' = r.tree
            /\ cbret' = Append(cbret, r.reply)
    /\ Return(0)
    /\ trace' = trace \o <<"clixon_xml2cbuf", "nacm_datanode_read">>

\* get_nacm_and_reply as the handler calls it: the NACM gate, then the reply
ReplyStep ==
    /\ \E denied \in NacmDenied :
         LET r == get_nacm_and_reply(xret, denied, depth)
         IN /\ xret' = r.tree
            /\ cbret' = Append(cbret, r.reply)
    /\ Return(0)
    /\ trace' = trace \o <<"nacm_datanode_read", "clixon_xml2cbuf">>

get_common_reply ==
    /\ pc = "reply"
    /\ ReplyStep
    /\ UNCHANGED <<content, db, xpath, depth, wdmode, paginated, list_config,
                   offset, limit, xvec, selected, stored, dserr, validate>>
    /\ UNCHANGED <<req_filter, req_depth, pag_cb, xp_vars>>


(***************************************************************************)
(* get_list_pagination                                                     *)
(***************************************************************************)
\* The schema path of each node: the names from the top down to it
SchemaPath ==
    [n \in Nodes |-> [i \in 1..Level(n) |->
                        Name(CHOOSE m \in AncOrSelf(n) : Level(m) = i)]]

\* yang_path_arg(yspec, xpath?xpath:"/", &ylist): the schema node of the
\* path, -1 if there is none
yang_path_arg(steps) ==
    LET hits == {n \in Nodes \ {Root} : SchemaPath[n] = steps}
    IN IF steps = << >> THEN Root
       ELSE IF hits = {} THEN -1
       ELSE CHOOSE n \in hits : \A m \in hits : n <= m

\* element2value(h, xe, name, defaultstr, cbret, value) with the body of
\* the element name ("absent": no such element); ret 0 has written the
\* bad-attribute reply err
element2value(body, name, defaultstr) ==
    IF body = "absent" \/ body = NULL
    THEN [ret |-> 1, value |-> U32(0)]
    ELSE IF body = defaultstr
    THEN [ret |-> 1, value |-> U32(0)]
    ELSE IF parse_uint32(body).ok
    THEN [ret |-> 1, value |-> parse_uint32(body).val]
    ELSE [ret |-> 0, value |-> U32(0)]

\* The XPath with the pagination predicate appended (cbpath)
PaginationXPath(xp, off, lim) ==
    IF off # U32(0)
    THEN IF lim # U32(0)
         THEN [xp EXCEPT !.haslo = TRUE, !.lo = off,
                         !.hashi = TRUE, !.hi = U32Add(lim, off)]
         ELSE [xp EXCEPT !.haslo = TRUE, !.lo = off]
    ELSE IF lim # U32(0)
    THEN [xp EXCEPT !.hashi = TRUE, !.hi = lim]
    ELSE xp

\* A variant that ends the request with goto done
InvalidValue_fatal(msg) ==
    /\ Return(-1)
    /\ UNCHANGED <<cbret, list_config>>

\* netconf_invalid_value and goto ok
InvalidValue(msg) ==
    /\ cbret' = Append(cbret, ErrorReply("invalid-value", <<msg>>))
    /\ Return(0)
    /\ UNCHANGED list_config

\* Check if list/leaf-list, sanity checks on state/config
get_list_pagination_check ==
    /\ pc = "pag_check"
    /\ LET ylist == yang_path_arg(XPathOrRoot.steps)
       IN IF ylist = -1
          THEN InvalidValue("not found")
          ELSE IF Keyword(ylist) # "list"
          THEN InvalidValue("target is not list or leaf-list")
          ELSE IF YangConfig(ylist) /\ content = "nonconfig"
          THEN InvalidValue("config list but content request is nonconfig")
          ELSE IF ~YangConfig(ylist) /\ content = "config"
          THEN InvalidValue("state list but content request is config")
          ELSE /\ list_config' = YangConfig(ylist)
               /\ pc' = "pag_offset"
               /\ UNCHANGED <<cbret, retval>>
    /\ Step("yang_path_arg")
    /\ UNCHANGED <<content, db, xpath, depth, wdmode, paginated, offset, limit,
                   xret, xvec, selected, stored, dserr, validate>>
    /\ UNCHANGED <<req_filter, req_depth, pag_cb, xp_vars>>

\* offset and limit
get_list_pagination_offset_limit ==
    /\ pc = "pag_offset"
    /\ \E ob \in NumBodies \ {"unbounded"} :
         LET r1 == element2value(ob, "offset", "none")
         IN /\ offset' = r1.value
            /\ IF r1.ret = 0
               THEN /\ cbret' = Append(cbret,
                                    ErrorReply("bad-attribute", <<"offset">>))
                    /\ UNCHANGED limit
               ELSE \E lb \in NumBodies \ {"none"} :
                      LET r2 == element2value(lb, "limit", "unbounded")
                      IN /\ limit' = r2.value
                         /\ cbret' = IF r2.ret = 0
                                     THEN Append(cbret,
                                       ErrorReply("bad-attribute", <<"limit">>))
                                     ELSE cbret
    /\ pc' = "pag_read"
    /\ Step("element2value")
    /\ UNCHANGED <<content, db, xpath, depth, wdmode, paginated, list_config,
                   xret, xvec, selected, retval, stored, dserr, validate>>
    /\ UNCHANGED <<req_filter, req_depth, pag_cb, xp_vars>>

\* Read config
get_list_pagination_read ==
    /\ pc = "pag_read"
    /\ \/ /\ content \in {"config", "all"}
          /\ Step("xmldb_get0")
          /\ \/ \E st \in StoredTrees :
                  /\ stored' = st.nodes \cap CfgEntries
                  /\ xret' = xmldb_get0(st,
                               PaginationXPath(XPathOrRoot, offset, limit))
                  /\ pc' = IF list_config THEN "pag_with_defaults"
                           ELSE "pag_state"
                  /\ UNCHANGED <<cbret, retval, dserr>>
             \/ \E reason \in {"ENOENT", "EACCES"} : DatastoreFailed(reason)
       \/ /\ content = "nonconfig"
          /\ Step("xml_new")
          /\ xret' = TopTree
          /\ pc' = IF list_config THEN "pag_with_defaults" ELSE "pag_state"
          /\ UNCHANGED <<cbret, retval, stored, dserr>>
       \/ /\ content = "unknown"
          /\ pc' = IF list_config THEN "pag_with_defaults" ELSE "pag_state"
          /\ UNCHANGED <<xret, cbret, retval, stored, dserr, trace>>
    /\ UNCHANGED <<content, db, xpath, depth, wdmode, paginated, list_config,
                   offset, limit, xvec, selected, validate>>
    /\ UNCHANGED <<req_filter, req_depth, pag_cb, xp_vars>>

\* A variant that takes a lock of any session for a lock of this one
pagination_locked_any(iddb, ce_id) == IF iddb # NoLock THEN 1 ELSE 0

\* Check if running locked (by this session): iddb is
\* xmldb_islocked(h, "running"), ce_id the session of the request
pagination_locked(iddb, ce_id) ==
    IF iddb # NoLock /\ iddb = ce_id THEN 1 ELSE 0

\* A call of clixon_pagination_cb_call by session ce_id while the lock of
\* running is iddb, with the return value ret of the call
PaginationCall(ce_id, iddb, ret) ==
    [ce_id |-> ce_id, iddb |-> iddb, locked |-> pagination_locked(iddb, ce_id),
     offset |-> offset, limit |-> limit, ret |-> ret]

\* State list: the pagination callback of the plugin and the yang binding
get_list_pagination_state ==
    /\ pc = "pag_state"
    /\ Step("clixon_pagination_cb_call")
    /\ \E ce_id \in {ThisSession}, iddb \in {NoLock} \cup Sessions :
         IF xret.isnull
         THEN /\ pag_cb' = Append(pag_cb, PaginationCall(ce_id, iddb, -1))
              /\ Return(-1)
              /\ UNCHANGED <<xret, cbret>>
         ELSE \/ \E page \in StatePages :
                   /\ pag_cb' = Append(pag_cb, PaginationCall(ce_id, iddb, 1))
                   /\ xret' = xml_merge(xret, page)
                   /\ pc' = "pag_with_defaults"
                   /\ UNCHANGED <<cbret, retval>>
              \/ \* the callback returns 0
                 /\ pag_cb' = Append(pag_cb, PaginationCall(ce_id, iddb, 0))
                 /\ cbret' = Append(cbret,
                               ErrorReply("operation-failed", <<"pagination">>))
                 /\ Return(0)
                 /\ UNCHANGED xret
              \/ \* xml_bind_yang returns 0
                 /\ pag_cb' = Append(pag_cb, PaginationCall(ce_id, iddb, 1))
                 /\ cbret' = Append(cbret,
                               ErrorReply("operation-failed", <<"bind">>))
                 /\ Return(0)
                 /\ UNCHANGED xret
    /\ UNCHANGED <<content, db, xpath, depth, wdmode, paginated, list_config,
                   offset, limit, xvec, selected, stored, dserr, validate>>
    /\ UNCHANGED <<req_filter, req_depth, xp_vars>>

get_list_pagination_with_defaults ==
    /\ pc = "pag_with_defaults"
    /\ WithDefaultsStep("pag_xpath_vec")
    /\ UNCHANGED <<content, db, xpath, depth, paginated, list_config, offset,
                   limit, xvec, selected, cbret, stored, dserr, validate>>
    /\ UNCHANGED <<req_filter, req_depth, pag_cb, xp_vars>>

get_list_pagination_xpath_vec ==
    /\ pc = "pag_xpath_vec"
    /\ XpathVecStep("pag_filter")
    /\ UNCHANGED <<content, db, xpath, depth, wdmode, paginated, list_config,
                   offset, limit, xret, cbret, stored, dserr, validate>>
    /\ UNCHANGED <<req_filter, req_depth, pag_cb, xp_vars>>

get_list_pagination_filter ==
    /\ pc = "pag_filter"
    /\ FilterStep("pag_reply")
    /\ UNCHANGED <<content, db, xpath, depth, wdmode, paginated, list_config,
                   offset, limit, xvec, selected, cbret, stored, dserr,
                   validate>>
    /\ UNCHANGED <<req_filter, req_depth, pag_cb, xp_vars>>

get_list_pagination_reply ==
    /\ pc = "pag_reply"
    /\ ReplyStep
    /\ UNCHANGED <<content, db, xpath, depth, wdmode, paginated, list_config,
                   offset, limit, xvec, selected, stored, dserr, validate>>
    /\ UNCHANGED <<req_filter, req_depth, pag_cb, xp_vars>>

Next ==
    \/ from_client_get_config
    \/ from_client_get
    \/ get_common_filter
    \/ get_common_depth
    \/ get_common_pagination
    \/ get_common_read_config
    \/ get_common_read_state
    \/ get_common_with_defaults
    \/ get_common_validate
    \/ get_common_nonconfig
    \/ get_common_xpath_vec
    \/ get_common_filter_xpath_again
    \/ get_common_reply
    \/ get_list_pagination_check
    \/ get_list_pagination_offset_limit
    \/ get_list_pagination_read
    \/ get_list_pagination_state
    \/ get_list_pagination_with_defaults
    \/ get_list_pagination_xpath_vec
    \/ get_list_pagination_filter
    \/ get_list_pagination_reply

Spec == Init /\ [][Next]_vars

(***************************************************************************)
(* The evaluator as a state machine: one call of one of its functions.     *)
(***************************************************************************)
\* The call is made with these arguments (xp_pc "call") and has returned
\* xp_out (xp_pc "return")
XpInit ==
    /\ pc = "idle"
    /\ req_filter = "none"
    /\ req_depth = NULL
    /\ content = "all"
    /\ db = NULL
    /\ xpath = NullXPath
    /\ depth = -1
    /\ wdmode = "unread"
    /\ paginated = FALSE
    /\ list_config = FALSE
    /\ offset = U32(0)
    /\ limit = U32(0)
    /\ xret = NullTree
    /\ xvec = << >>
    /\ selected = FALSE
    /\ cbret = << >>
    /\ retval = NULL
    /\ stored = {}
    /\ dserr = NULL
    /\ validate = FALSE
    /\ trace = << >>
    /\ pag_cb = << >>
    /\ xp_pc = "call"
    /\ xp_call \in XpCalls
    /\ xp_out = NoResult

\* xp_eval on the context of the caller
call_xp_eval ==
    /\ xp_pc = "call"
    /\ xp_call.fn = "xp_eval"
    /\ xp_out' = xp_eval_ctx(xp_call.doc, NoMem, InitialCtx(xp_call.node),
                             xp_call.xs, xp_call.nsc)
    /\ xp_pc' = "return"
    /\ UNCHANGED <<xp_call, backend_vars>>

\* xp_relop on two operands
call_xp_relop ==
    /\ xp_pc = "call"
    /\ xp_call.fn = "xp_relop"
    /\ LET r == xp_relop(xp_call.doc, NoMem, xp_call.xc1, xp_call.xc2,
                         xp_call.op)
       IN xp_out' = EvResult(r.retval, r.xr, NoCtx, r.m)
    /\ xp_pc' = "return"
    /\ UNCHANGED <<xp_call, backend_vars>>

\* nodetest_eval_node on an element; the result is in retval
call_nodetest_eval_node ==
    /\ xp_pc = "call"
    /\ xp_call.fn = "nodetest_eval_node"
    /\ xp_out' = EvResult(nodetest_eval_node(xp_call.x, xp_call.xs,
                                             xp_call.nsc),
                          NoCtx, NoCtx, NoMem)
    /\ xp_pc' = "return"
    /\ UNCHANGED <<xp_call, backend_vars>>

\* xp_union on two operands
call_xp_union ==
    /\ xp_pc = "call"
    /\ xp_call.fn = "xp_union"
    /\ LET r == xp_union(NoMem, xp_call.xc1, xp_call.xc2, xp_call.op)
       IN xp_out' = EvResult(r.retval, r.xr, NoCtx, r.m)
    /\ xp_pc' = "return"
    /\ UNCHANGED <<xp_call, backend_vars>>

XpNext ==
    \/ call_xp_eval
    \/ call_xp_relop
    \/ call_nodetest_eval_node
    \/ call_xp_union

XpSpec == XpInit /\ [][XpNext]_vars


(***************************************************************************)
(* Properties                                                              *)
(***************************************************************************)
LastReply == cbret[Len(cbret)]

\* The request completed with a data reply
DataReplied ==
    /\ pc = "done"
    /\ retval = "0"
    /\ Len(cbret) > 0
    /\ LastReply.kind = "data"

\* The elements that lie in the selection of the XPath: the selected nodes,
\* their ancestors and the content (subtree) of each selected node
InSelection(n) ==
    \/ n \in AncestorsOf(Range(xvec))
    \/ AncOrSelf(n) \cap Range(xvec) # {}

\* C1: every element kept in a data reply below <data> is a node selected
\* by the request's XPath (with its content) or an ancestor of a selected
\* node, whatever the content class and the with-defaults mode: marks left
\* by earlier pipeline stages never keep an unselected subtree.
C1_OnlySelectionKept ==
    DataReplied => \A n \in LastReply.nodes \ {Root} : InSelection(n)

\* C2: after a request completed with a data reply (normal or pagination
\* path), no element of the tree serialised into the reply has the MARK
\* flag set.
C2_NoMarkInReply ==
    DataReplied => LastReply.tree.mark = {}

\* C2 witness: a data reply of a request whose with-defaults pass and XPath
\* selection both marked elements that are in the reply
C2_Witness ==
    /\ DataReplied
    /\ wdmode = "report-all-tagged"
    /\ \E n \in LastReply.nodes : LastReply.tree.tag[n] > 0
    /\ Range(xvec) \cap LastReply.nodes # {}


\* C3: a request that returns success leaves exactly one reply in the
\* reply buffer, a data reply or an error reply; after an invalid offset or
\* limit the buffer holds the error reply only.
C3_ExactlyOneReply ==
    (pc = "done" /\ retval = "0")
        => (Len(cbret) = 1 /\ cbret[1].kind \in {"data", "error"})

\* Position p of a list is in the page of offset o and limit l:
\* o <= p and (l = 0 or p < o + l), in unbounded arithmetic
InPage(p, o, l) ==
    /\ U32Le(o, U32(p))
    /\ (l = U32(0) \/ U32Lt(U32(p - o.lo), l))

\* C4: a paginated read of a config list with n entries, offset o and limit
\* l returns exactly the entries at the 0-based positions p with o <= p and
\* (l = 0 or p < o + l).
C4_PageIsExact ==
    (DataReplied /\ paginated /\ list_config /\ Len(cbret) = 1 /\ depth # 0)
        => LastReply.nodes \cap CfgEntries
             = {CfgEntry(p) : p \in {q \in 0..(Cardinality(stored) - 1) :
                                       InPage(q, offset, limit)}}

\* C5: the handler returns failure only on allocation failure or a
\* corrupted tree (neither is in the model); a request with malformed
\* parameters is answered with an rpc-error reply and success.
C5_MalformedGetsErrorReply ==
    pc = "done"
        => /\ retval = "0"
           /\ (db = NULL \/ content = "unknown" \/ wdmode = NULL)
                => (Len(cbret) > 0 /\ LastReply.kind = "error")

InTrace(name) == \E i \in 1..Len(trace) : trace[i] = name

\* The steps of the pipeline that follow the datastore read
StepsAfterRead ==
    {"clixon_plugin_statedata_all", "xml_default_recurse",
     "clixon_pagination_cb_call", "with_defaults", "xml_yang_validate",
     "xml_non_config_data", "xpath_vec", "filter_xpath_again",
     "nacm_datanode_read", "clixon_xml2cbuf"}

\* C6: when the datastore read fails the reply is operation-failed with the
\* datastore's reason, the handler returns 0 and none of the later steps
\* is executed.
C6_DatastoreFailure ==
    dserr # NULL
        => /\ pc = "done"
           /\ retval = "0"
           /\ LastReply = ErrorReply("operation-failed", <<db, dserr>>)
           /\ \A i \in 1..Len(cbret) : cbret[i].kind = "error"
           /\ \A st \in StepsAfterRead : ~InTrace(st)
           /\ xret = NullTree

C6_Witness ==
    /\ dserr = "EACCES"
    /\ pc = "done"
    /\ content = "all"
    /\ ~paginated

\* C7: in get_common a select that fails canonicalisation is answered with
\* bad-attribute naming select, a depth that is not an integer with
\* bad-attribute naming depth; the handler returns 0 and neither the
\* datastore, the state aggregator nor the pagination branch is invoked;
\* if both are invalid the select error is reported.
C7_BadAttribute ==
    /\ (req_filter = "bad" /\ db # NULL /\ pc \notin {"recv", "filter"})
         => /\ pc = "done"
            /\ retval = "0"
            /\ cbret = <<ErrorReply("bad-attribute", <<"select">>)>>
            /\ trace = <<"xpath2canonical">>
            /\ xret = NullTree
    /\ (/\ req_filter # "bad"
        /\ db # NULL
        /\ req_depth # NULL
        /\ ~parse_int32(req_depth).ok
        /\ pc \notin {"recv", "filter", "depth"})
         => /\ pc = "done"
            /\ retval = "0"
            /\ cbret = <<ErrorReply("bad-attribute", <<"depth">>)>>
            /\ \A st \in StepsAfterRead \cup {"xmldb_get0", "yang_path_arg"} :
                 ~InTrace(st)
            /\ xret = NullTree

\* C7 witness: select and depth are both invalid and the request is done
C7_Witness ==
    /\ req_filter = "bad"
    /\ req_depth = "two"
    /\ pc = "done"
    /\ Len(cbret) = 1

\* C8: with depth = d > 0 the reply is serialised with the level bound d+1
\* counted from <data>: it holds the elements of the tree at most d levels
\* below <data> and no other; depth -1 means unlimited.
C8_DepthBound ==
    (pc = "done" /\ retval = "0" /\ Len(cbret) > 0
       /\ LastReply.kind \in {"data", "empty"})
        => /\ depth > 0
                => LastReply.nodes
                     = {n \in LastReply.tree.nodes : Level(n) <= depth}
           /\ depth = -1 => LastReply.nodes = LastReply.tree.nodes

\* C8 witness: tree a/b/c/d with depth=2 yields <data><a><b/></a></data>
C8_Witness ==
    /\ DataReplied
    /\ depth = 2
    /\ {1, 2, 3, 4} \subseteq LastReply.tree.nodes
    /\ LastReply.nodes \ {5, 6} = {Root, 1, 2}

\* The body of n in tree t equals the default of its schema node
HasDefaultValue(t, n) ==
    t.body[n] # NULL /\ YangDefault(n) # NULL /\ t.body[n] = YangDefault(n)

\* C9: in a with-defaults=trim data reply no element has a body equal to
\* its schema default and none is flagged DEFAULT; the trim pass does not
\* remove an element whose body differs from its schema default.
C9_Trim ==
    /\ [](DataReplied /\ wdmode = "trim"
            => \A n \in LastReply.nodes :
                 ~HasDefaultValue(LastReply.tree, n)
                   /\ n \notin LastReply.tree.dflt)
    /\ [][wdmode' = "trim" /\ wdmode # "trim"
            => \A n \in xret.nodes :
                 (xret.body[n] # NULL /\ ~HasDefaultValue(xret, n))
                   => (n \in xret'.nodes /\ xret'.body[n] = xret.body[n])]_vars

\* C9 witness: a trim reply with <y>7</y> (default 5) present and x absent
C9_Witness ==
    /\ DataReplied
    /\ wdmode = "trim"
    /\ 6 \in LastReply.nodes
    /\ LastReply.tree.body[6] = "7"
    /\ 1 \in LastReply.nodes
    /\ 5 \notin LastReply.tree.nodes

\* C10: in a with-defaults=report-all-tagged data reply the root declares
\* the prefix wd, every element that is flagged DEFAULT or has its schema
\* default as body carries exactly one wd:default="true", and no other
\* element carries one.
C10_Tagged ==
    (DataReplied /\ wdmode = "report-all-tagged")
        => /\ LastReply.tree.wdns
           /\ \A n \in LastReply.nodes :
                LastReply.tree.tag[n] =
                    (IF n \in LastReply.tree.dflt
                          \/ HasDefaultValue(LastReply.tree, n)
                     THEN 1 ELSE 0)

\* C10 witness: a tagged reply with a DEFAULT-flagged element, an element
\* set to its default value and an element with another value
C10_Witness ==
    /\ DataReplied
    /\ wdmode = "report-all-tagged"
    /\ \E n \in LastReply.nodes : n \in LastReply.tree.dflt
    /\ \E n \in LastReply.nodes :
         n \notin LastReply.tree.dflt /\ HasDefaultValue(LastReply.tree, n)
    /\ \E n \in LastReply.nodes :
         LastReply.tree.body[n] # NULL /\ ~HasDefaultValue(LastReply.tree, n)

\* A call of xp_eval has returned
EvalReturned == xp_pc = "return" /\ xp_call.fn = "xp_eval"

\* C11: evaluating "/" (an absolute path with no steps) on any tree, from
\* any context node, returns the node-set that holds exactly the root.
C11_SlashIsRoot ==
    (EvalReturned /\ xp_call.xs = XsAbsPath("A_ROOT", NoXs))
        => /\ xp_out.retval = 0
           /\ xp_out.xr.type = "NODESET"
           /\ xp_out.xr.nodeset = <<Root>>

\* The place of a step in the pipeline of a non-paginated request: the
\* datastore read (or the empty top tree of a state-only request), the
\* state-data merge, the default application, with-defaults, the non-config
\* pruning, the XPath selection, the pruning to the selection, the NACM
\* gate and the writing of the reply; 0 if it is none of these
StepRank(name) ==
    CASE name \in {"xmldb_get0", "xml_new"} -> 1
      [] name = "clixon_plugin_statedata_all" -> 2
      [] name = "xml_default_recurse" -> 3
      [] name = "with_defaults" -> 4
      [] name = "xml_non_config_data" -> 5
      [] name = "xpath_vec" -> 6
      [] name = "filter_xpath_again" -> 7
      [] name = "nacm_datanode_read" -> 8
      [] name = "clixon_xml2cbuf" -> 9
      [] OTHER -> 0

\* The places of the pipeline a request of a content class goes through
RanksOf(c) ==
    {1, 4, 6, 7, 8, 9}
      \cup (IF c \in {"all", "nonconfig"} THEN {2, 3} ELSE {})
      \cup (IF c = "nonconfig" THEN {5} ELSE {})

\* The places of the steps executed so far, in the order of execution
RanksSoFar ==
    SelectSeq([i \in 1..Len(trace) |-> StepRank(trace[i])], LAMBDA r : r > 0)

C13_OnlyStateInReply ==
    (DataReplied /\ ~paginated /\ content = "nonconfig")
        => \A n \in LastReply.nodes \ {Root} : ~YangConfig(n)

\* A call of nodetest_eval_node has returned
NodetestReturned == xp_pc = "return" /\ xp_call.fn = "nodetest_eval_node"

\* C14: the node test of an element x against the name test px:lx matches
\* exactly when lx is "*", or the local names are equal and, with a
\* namespace context, the URI of x's prefix in the document equals the URI
\* the context binds px to (both unbound counts as equal), whatever prefix
\* the document uses, and, without a namespace context, the two prefixes
\* are equal or both absent.
C14_NodetestReference ==
    NodetestReturned
        => LET x == xp_call.x
               px == xp_call.xs.s0
               lx == xp_call.xs.s1
               nsc == xp_call.nsc
           IN /\ xp_out.retval \in {0, 1}
              /\ xp_out.retval = 1
                   <=> \/ lx = "*"
                       \/ /\ x.name = lx
                          /\ IF nsc.isnull
                             THEN x.prefix = px
                             ELSE x.ns[x.prefix] = nsc.map[px]

\* C14 witness: with a namespace context, an element matched under a prefix
\* that differs from the prefix of the name test, both bound to one URI
C14_Witness ==
    /\ NodetestReturned
    /\ ~xp_call.nsc.isnull
    /\ xp_call.xs.s1 # "*"
    /\ xp_call.x.prefix # xp_call.xs.s0
    /\ xp_call.x.ns[xp_call.x.prefix] # NULL
    /\ xp_out.retval = 1

\* The target of a list-pagination request is no list (or leaf-list) of the
\* schema, or the content class contradicts the classification of the list
PaginationTargetBad ==
    LET ylist == yang_path_arg(XPathOrRoot.steps)
    IN \/ ylist = -1
       \/ Keyword(ylist) \notin {"list", "leaf-list"}
       \/ YangConfig(ylist) /\ content = "nonconfig"
       \/ ~YangConfig(ylist) /\ content = "config"

\* C15: a list-pagination request whose target is no list or leaf-list, or
\* whose content class contradicts the target's classification, is answered
\* with one invalid-value error and return 0, and neither the datastore is
\* read nor the pagination state callback invoked.
C15_PaginationPreconditions ==
    (paginated /\ PaginationTargetBad)
        => /\ pc \in {"pag_check", "done"}
           /\ ~InTrace("xmldb_get0")
           /\ ~InTrace("clixon_pagination_cb_call")
           /\ pc = "done"
                => /\ retval = "0"
                   /\ Len(cbret) = 1
                   /\ LastReply.kind = "error"
                   /\ LastReply.tag = "invalid-value"

\* C15 witness: content=nonconfig on the config list l was rejected
C15_Witness ==
    /\ paginated
    /\ pc = "done"
    /\ content = "nonconfig"
    /\ XPathOrRoot.steps = <<"l">>
    /\ LastReply.tag = "invalid-value"

\* The pagination state callback has been called
CallbackCalled == InTrace("clixon_pagination_cb_call")

\* C16: a paginated read of a state list by session S calls the pagination
\* state callback exactly once (never before the read reaches the state
\* list, never for a config list), with locked = 1 exactly when running is
\* at that moment locked by S and locked = 0 when it is unlocked or locked
\* by another session; a callback that reports failure gives an
\* operation-failed reply and return 0.
C16_PaginationCallback ==
    /\ Len(pag_cb) = (IF CallbackCalled THEN 1 ELSE 0)
    /\ CallbackCalled => paginated /\ ~list_config
    /\ (DataReplied /\ paginated /\ ~list_config) => CallbackCalled
    /\ \A i \in 1..Len(pag_cb) :
          /\ pag_cb[i].locked \in {0, 1}
          /\ pag_cb[i].locked = 1
               <=> (pag_cb[i].iddb # NoLock /\ pag_cb[i].iddb = pag_cb[i].ce_id)
          /\ (pag_cb[i].ret = 0 /\ pc = "done")
               => /\ retval = "0"
                  /\ LastReply.kind = "error"
                  /\ LastReply.tag = "operation-failed"

\* C16 witness: a state list was read while another session held the lock
\* of running, and the callback was told locked = 0
C16_Witness ==
    /\ DataReplied
    /\ paginated
    /\ ~list_config
    /\ Len(pag_cb) = 1
    /\ pag_cb[1].iddb # NoLock
    /\ pag_cb[1].iddb # pag_cb[1].ce_id
    /\ pag_cb[1].locked = 0

\* A call of xp_relop has returned
RelopReturned == xp_pc = "return" /\ xp_call.fn = "xp_relop"

\* C17: when an evaluation returns, with success or with an error, no
\* context was freed twice and every context allocated during the call has
\* been freed, except the one handed to the caller on success.
C17_ContextsFreed ==
    (EvalReturned /\ xp_out.retval \in {0, -1})
        => /\ ~xp_out.m.twice
           /\ xp_out.m.live = (IF xp_out.retval = 0 THEN {xp_out.xr.id}
                               ELSE {})

\* The comparison with 0 of the sign c of a comparison that op stands for
Satisfies(op, c) ==
    CASE op = "XO_EQ" -> c = 0
      [] op = "XO_NE" -> c # 0
      [] op = "XO_LT" -> c < 0
      [] op = "XO_LE" -> c <= 0
      [] op = "XO_GT" -> c > 0
      [] op = "XO_GE" -> c >= 0

\* The result of a call is the boolean b
ResultIsBool(b) ==
    /\ xp_out.retval = 0
    /\ xp_out.xr.type = "BOOL"
    /\ xp_out.xr.bool = CBool(b)

\* C18: for two operands of the same non-node-set type and each of the six
\* relational operators, the result is the boolean of the direct
\* comparison a op b (numbers and booleans by value, strings lexically).
C18_SameTypeComparison ==
    (RelopReturned /\ xp_call.xc1.type = xp_call.xc2.type
                   /\ xp_call.xc1.type # "NODESET")
        => LET a == xp_call.xc1
               b == xp_call.xc2
               c == CASE a.type = "NUMBER" -> a.number - b.number
                      [] a.type = "BOOL" -> a.bool - b.bool
                      [] a.type = "STRING" -> strcmp(a.string, b.string)
           IN ResultIsBool(Satisfies(xp_call.op, c))

\* The string-value of an element: its text, empty if it has no body
StringValue(doc, n) == IF doc.body[n] = NULL THEN "" ELSE doc.body[n]

\* C19: for two node-sets and every relational operator, the result is
\* true exactly when a node of the first and a node of the second have
\* string-values that satisfy the operator (so it is false when either set
\* is empty), also when the sets hold nodes without a text body.
C19_NodesetComparison ==
    (RelopReturned /\ xp_call.xc1.type = "NODESET"
                   /\ xp_call.xc2.type = "NODESET")
        => LET doc == xp_call.doc
               S1 == Range(xp_call.xc1.nodeset)
               S2 == Range(xp_call.xc2.nodeset)
           IN ResultIsBool(\E n1 \in S1, n2 \in S2 :
                              Satisfies(xp_call.op,
                                        strcmp(StringValue(doc, n1),
                                               StringValue(doc, n2))))

\* The boolean a literal coerces to: a number that is not 0, a string that
\* is not empty
LiteralBool(xs) ==
    IF xs.type = "PRIME_NR" THEN xs.double # 0 ELSE xs.s0 # ""

\* C20: "A and B" is false whenever A coerces to false and "A or B" is true
\* whenever A coerces to true, whatever the evaluation of B produces, also
\* when it fails; otherwise the result is the conjunction or disjunction of
\* the two coerced operands.
C20_LogicalOperators ==
    (EvalReturned /\ xp_call.xs.type = "AND")
        => LET A == LiteralBool(xp_call.xs.c0)
               B == xp_call.xs.c1
               op == xp_call.xs.int
           IN IF op = "XO_AND" /\ ~A THEN ResultIsBool(FALSE)
              ELSE IF op = "XO_OR" /\ A THEN ResultIsBool(TRUE)
              ELSE B.type \in {"PRIME_NR", "PRIME_STR"}
                     => ResultIsBool(IF op = "XO_AND"
                                     THEN A /\ LiteralBool(B)
                                     ELSE A \/ LiteralBool(B))

\* The call evaluated a child step with one predicate
PredicateStepReturned ==
    /\ EvalReturned
    /\ xp_call.xs.type = "STEP"
    /\ xp_call.xs.c1.type = "PRED"
    /\ xp_call.xs.c1.c0.type = "NONE"

\* The candidates of the step of the call: its node-set without predicates
Candidates ==
    xp_eval_ctx(xp_call.doc, NoMem, InitialCtx(xp_call.node),
                [xp_call.xs EXCEPT !.c1 = NoXs], xp_call.nsc).xr.nodeset

\* The value of the predicate expression of the call for the candidate x
PredicateValue(x) ==
    xp_eval_ctx(xp_call.doc, NoMem, InitialCtx(x), xp_call.xs.c1.c1,
                xp_call.nsc)

\* The candidate at the 0-based position p is kept: a number keeps it when
\* it equals p, any other value when it coerces to true
KeptAt(p) ==
    LET v == PredicateValue(Candidates[p + 1]).xr
    IN IF v.type = "NUMBER" THEN v.number = Dbl(p)
       ELSE ctx2boolean(v) # 0

\* C21: a predicate whose expression is a number n for the candidate at
\* position p keeps the candidate exactly when n equals p, without
\* truncation (a non-integer keeps nothing); an expression of another type
\* keeps it exactly when it coerces to true; the kept nodes are the
\* candidates kept, in their order.
C21_PredicateKeeps ==
    (PredicateStepReturned
       /\ \A i \in 1..Len(Candidates) :
             PredicateValue(Candidates[i]).retval = 0)
        => /\ xp_out.retval = 0
           /\ xp_out.xr.type = "NODESET"
           /\ LET idx == SelectSeq([i \in 1..Len(Candidates) |-> i],
                                   LAMBDA i : KeptAt(i - 1))
              IN xp_out.xr.nodeset
                   = [k \in 1..Len(idx) |-> Candidates[idx[k]]]

\* The value a result context holds
ValueOf(xc) ==
    [type |-> xc.type, nodeset |-> xc.nodeset, bool |-> xc.bool,
     number |-> xc.number, string |-> xc.string]

\* An operand of the call evaluated alone on the context of the call
OperandAlone(xs) ==
    xp_eval_ctx(xp_call.doc, NoMem, InitialCtx(xp_call.node), xs, xp_call.nsc)

\* The operation of a binary node applied to two operand values
Combine(xs, xr0, xr1) ==
    CASE xs.type = "AND" -> xp_logop(NoMem, xr0, xr1, xs.int)
      [] xs.type = "RELEX" -> xp_relop(xp_call.doc, NoMem, xr0, xr1, xs.int)
      [] xs.type = "ADD" -> xp_numop(xp_call.doc, NoMem, xr0, xr1, xs.int)
      [] xs.type = "UNION" -> xp_union(NoMem, xr0, xr1, xs.int)

\* C22: an evaluation leaves the current node, the node-set and the
\* descendant flag of the context the caller passed in as they were, and
\* the two operands of a binary operator are both evaluated against that
\* original context: the result is the operation applied to the values the
\* operands have when each is evaluated alone on it (so in "/a | b" the
\* operand b is relative to the original context node).
C22_ContextsAreValues ==
    (EvalReturned /\ xp_out.retval \in {0, -1})
        => /\ xp_out.xc.node = xp_call.node
           /\ xp_out.xc.nodeset = <<xp_call.node>>
           /\ xp_out.xc.descendant = 0
           /\ (xp_call.xs.type \in {"AND", "RELEX", "ADD", "UNION"}
                 /\ OperandAlone(xp_call.xs.c0).retval = 0
                 /\ OperandAlone(xp_call.xs.c1).retval = 0)
                => LET r == Combine(xp_call.xs,
                                    OperandAlone(xp_call.xs.c0).xr,
                                    OperandAlone(xp_call.xs.c1).xr)
                   IN /\ xp_out.retval = r.retval
                      /\ r.retval = 0 => ValueOf(xp_out.xr) = ValueOf(r.xr)

\* A call of xp_union with the union operator has returned
UnionReturned ==
    xp_pc = "return" /\ xp_call.fn = "xp_union" /\ xp_call.op = "XO_UNION"

\* C23: the union is the empty node-set whenever one of the operands is no
\* node-set; of two node-sets it is the nodes of the first followed by the
\* nodes of the second, duplicates kept.
C23_Union ==
    UnionReturned
        => /\ xp_out.retval = 0
           /\ xp_out.xr.type = "NODESET"
           /\ xp_out.xr.nodeset
                = (IF xp_call.xc1.type = "NODESET"
                      /\ xp_call.xc2.type = "NODESET"
                   THEN xp_call.xc1.nodeset \o xp_call.xc2.nodeset
                   ELSE << >>)

\* C24: a child step with the node test node() selects every element child
\* of the context node, and a child step with the node test text() puts no
\* element node into its node-set.
C24_NodeAndText ==
    /\ (EvalReturned /\ xp_call.xs = XsStep("A_CHILD", XsNodeFn("node"), NoXs))
          => /\ xp_out.retval = 0
             /\ xp_out.xr.nodeset = ChildSeq(xp_call.doc, xp_call.node)
    /\ (EvalReturned /\ xp_call.xs = XsStep("A_CHILD", XsNodeFn("text"), NoXs))
          => /\ xp_out.retval = 0
             /\ Range(xp_out.xr.nodeset) \cap xp_call.doc.nodes = {}

\* The call evaluated a relative location path P//S
DescendantPathReturned ==
    /\ EvalReturned
    /\ xp_call.xs.type = "RELLOCPATH"
    /\ xp_call.xs.int = "A_DESCENDANT_OR_SELF"

\* C25: in a relative location path P//S the descendant flag affects only
\* S: P selects what it selects without "//", S collects all the matching
\* descendants of each node of P's result, and the flag of the caller's
\* context is clear when the evaluation returns.
C25_DescendantFlag ==
    DescendantPathReturned
        => LET P == OperandAlone(xp_call.xs.c0)
               Below(n) == nodetest_recursive(xp_call.doc, n,
                                              xp_call.xs.c1.c0, xp_call.nsc)
           IN /\ xp_out.retval = 0
              /\ xp_out.xr.nodeset = FlatMap(Below, P.xr.nodeset, 1)
              /\ xp_out.xc.descendant = 0

\* A step on the parent axis without predicates
IsParentStep(xs) ==
    xs.type = "STEP" /\ xs.int = "A_PARENT" /\ xs.c1.type = "NONE"

\* The call evaluated a parent step, alone or as the last step of P/step
ParentStepReturned ==
    /\ EvalReturned
    /\ \/ IsParentStep(xp_call.xs)
       \/ /\ xp_call.xs.type = "RELLOCPATH"
          /\ xp_call.xs.int = "A_CHILD"
          /\ IsParentStep(xp_call.xs.c1)

\* The node-set the parent step of the call is taken over
ParentStepOver ==
    IF xp_call.xs.type = "STEP" THEN <<xp_call.node>>
    ELSE OperandAlone(xp_call.xs.c0).xr.nodeset

\* C26: a parent step over the node-set S is, in the order of S, the parent
\* of each node of S that has one: a root node adds nothing, a parent
\* shared by k nodes of S is there k times, and the node test of the step
\* filters nothing.
C26_ParentAxis ==
    ParentStepReturned
        => LET S == ParentStepOver
               nonroot == SelectSeq(S, LAMBDA n : n # Root)
           IN /\ xp_out.retval = 0
              /\ xp_out.xr.type = "NODESET"
              /\ xp_out.xr.nodeset
                   = [i \in 1..Len(nonroot) |-> Parent(nonroot[i])]

\* C26 witness: the three children of a gave their parent a three times,
\* under a node test that names another element
C26_Witness ==
    /\ ParentStepReturned
    /\ xp_call.xs.type = "RELLOCPATH"
    /\ xp_call.xs.c1.c0 = XsNode(NULL, "b")
    /\ Len(ParentStepOver) = 3
    /\ xp_out.xr.nodeset = <<1, 1, 1>>

\* The last step of the path of the call (the call itself if it is a step)
LastStep == IF xp_call.xs.type = "STEP" THEN xp_call.xs ELSE xp_call.xs.c1

\* The call evaluated a step, alone or as the last step of P/step, whose
\* last predicate is an integer
NumericPredicateReturned ==
    /\ EvalReturned
    /\ \/ xp_call.xs.type = "STEP"
       \/ xp_call.xs.type = "RELLOCPATH" /\ xp_call.xs.c1.type = "STEP"
    /\ LastStep.c1.type = "PRED"
    /\ LastStep.c1.c1.type = "PRIME_NR"
    /\ LastStep.c1.c1.double % Scale = 0
    /\ LastStep.c1.c1.double >= 0

\* The path of the call with preds in the place of the predicates of its
\* last step
WithPredicates(preds) ==
    IF xp_call.xs.type = "STEP" THEN [xp_call.xs EXCEPT !.c1 = preds]
    ELSE [xp_call.xs EXCEPT !.c1.c1 = preds]

\* The candidates of the last predicate: the matches of the step for all
\* its context nodes, narrowed by the predicates before the last
Narrowed == OperandAlone(WithPredicates(LastStep.c1.c0))

\* C27: the position a numeric predicate compares with is the 0-based index
\* of the node in the whole candidate node-set of the step (the matches of
\* all context nodes, narrowed by the preceding predicates), so the
\* predicate [n] keeps the n-th of these candidates and nothing else, at
\* most one node however many context nodes the step has.
C27_PredicatePosition ==
    (NumericPredicateReturned /\ Narrowed.retval = 0)
        => LET n == LastStep.c1.c1.double \div Scale
               cands == Narrowed.xr.nodeset
           IN /\ xp_out.retval = 0
              /\ xp_out.xr.nodeset
                   = (IF 0 <= n /\ n < Len(cands) THEN <<cands[n + 1]>>
                      ELSE << >>)

\* C27 witness: */*[. = '5'][1] over two context nodes with children kept
\* the second of the narrowed candidates, the third match of the step
C27_Witness ==
    /\ NumericPredicateReturned
    /\ xp_call.xs = XsGrandchildren(XsPred(XsPred(NoXs, XsSelfIsFive),
                                           XsNumber(1)))
    /\ OperandAlone(WithPredicates(NoXs)).xr.nodeset = <<5, 6, 8>>
    /\ xp_out.xr.nodeset = <<8>>

\* u - 1 for a uint32_t u > 0
U32Pred(u) ==
    IF u.lo > 0 THEN [u EXCEPT !.lo = u.lo - 1]
    ELSE [hi |-> u.hi - 1, lo |-> HalfMod - 1]

\* (o + l) mod 2^32 for o > 0 and l > 0, one of them UINT32_MAX or both
\* below 2^16: x + (2^32 - 1) is x - 1 modulo 2^32
UpperBound(o, l) ==
    IF l = U32Max THEN U32Pred(o)
    ELSE IF o = U32Max THEN U32Pred(l)
    ELSE U32(o.lo + l.lo)

\* o + l >= 2^32 for the offsets and limits of the model
SumWraps(o, l) ==
    o # U32(0) /\ l # U32(0) /\ (o = U32Max \/ l = U32Max)

\* The predicate written for offset and limit of the request
Written == PaginationXPath(XPathOrRoot, offset, limit)

\* A paginated read of a config list has been answered with data
PageReplied ==
    DataReplied /\ paginated /\ list_config /\ Len(cbret) = 1 /\ depth # 0

\* C28: the pagination predicate appended to the XPath has the lower bound
\* offset iff offset > 0 and an upper bound iff limit > 0; the upper bound
\* is limit for offset = 0 and (offset + limit) mod 2^32 otherwise; when
\* offset + limit >= 2^32 the upper bound is below the lower bound and the
\* page holds no entry, and otherwise the page is the positions within the
\* written bounds.
C28_PaginationPredicate ==
    PageReplied
        => /\ Written.haslo = (offset # U32(0))
           /\ Written.hashi = (limit # U32(0))
           /\ Written.haslo => Written.lo = offset
           /\ Written.hashi
                => Written.hi = (IF offset = U32(0) THEN limit
                                 ELSE UpperBound(offset, limit))
           /\ SumWraps(offset, limit)
                => /\ U32Lt(Written.hi, Written.lo)
                   /\ LastReply.nodes \cap CfgEntries = {}
           /\ LastReply.nodes \cap CfgEntries
                = {CfgEntry(p) :
                     p \in {q \in 0..(Cardinality(stored) - 1) :
                              /\ offset # U32(0) => U32Le(offset, U32(q))
                              /\ limit # U32(0)
                                   => U32Lt(U32(q),
                                            IF offset = U32(0) THEN limit
                                            ELSE UpperBound(offset, limit))}}

\* C28 witness: offset 1 and limit 4294967295 on a list with at least two
\* entries: the upper bound is 0 and the page is empty
C28_Witness ==
    /\ PageReplied
    /\ offset = U32(1)
    /\ limit = U32Max
    /\ Cardinality(stored) >= 2
    /\ Written.hi = U32(0)
    /\ LastReply.nodes \cap CfgEntries = {}

\* The types of the two operands differ and neither is a node-set
MixedTypes(t1, t2) == t1 # t2 /\ t1 # "NODESET" /\ t2 # "NODESET"

\* The type of the value of a literal
LiteralType(xs) ==
    CASE xs.type = "PRIME_NR" -> "NUMBER"
      [] xs.type = "PRIME_STR" -> "STRING"
      [] OTHER -> "NODESET"

\* The call evaluated a comparison of two literals
LiteralComparisonReturned ==
    /\ EvalReturned
    /\ xp_call.xs.type = "RELEX"
    /\ xp_call.xs.c0.type \in {"PRIME_NR", "PRIME_STR"}
    /\ xp_call.xs.c1.type \in {"PRIME_NR", "PRIME_STR"}

\* C29: a comparison of two operands of different types, neither a
\* node-set (number and string, number and boolean, string and boolean),
\* fails for every relational operator: xp_relop returns an error and hands
\* over no result context, and the xp_eval of such a comparison returns an
\* error too.
C29_MixedTypesFail ==
    /\ (RelopReturned /\ MixedTypes(xp_call.xc1.type, xp_call.xc2.type))
          => xp_out.retval = -1 /\ xp_out.xr = NoCtx
    /\ (LiteralComparisonReturned
          /\ MixedTypes(LiteralType(xp_call.xs.c0), LiteralType(xp_call.xs.c1)))
          => xp_out.retval = -1 /\ xp_out.xr = NoCtx

\* C29 witness: the evaluation of 1 < 'a' has returned an error
C29_Witness ==
    /\ LiteralComparisonReturned
    /\ xp_call.xs = XsBin("RELEX", "XO_LT", XsNumber(1), XsString("a"))
    /\ xp_out.retval = -1

\* The with-defaults elements the pass does not act on: none, report-all
\* and a body that is none of the four modes
PassiveModes == {"absent", "report-all", "bogus"}

\* C30: the with-defaults pass leaves the return tree (elements, bodies,
\* flags, tags) as it was and succeeds, so that the handler goes on, when
\* the request has no with-defaults element, when the mode is report-all
\* and when the mode is a non-empty string that is none of the four modes;
\* no error reply is written for an unrecognised mode.
C30_WithDefaultsFrame ==
    [][(wdmode = "unread" /\ wdmode' \in PassiveModes)
         => /\ xret' = xret
            /\ cbret' = cbret
            /\ retval' = retval
            /\ pc' \in {"validate", "pag_xpath_vec"}]_vars

\* C30 witness: the pass has run with an unrecognised mode on a tree with
\* DEFAULT-flagged elements and the handler went on
C30_Witness ==
    /\ wdmode = "bogus"
    /\ pc = "validate"
    /\ ~xret.isnull
    /\ xret.dflt # {}
    /\ cbret = << >>

====
